---- MODULE Spec2Model ----
(***************************************************************************)
(* A model of the MDLX language core: the tree-walking Evaluator and its   *)
(* ExecutionContext (src/src/evaluator.ts), and the plugin that embeds it  *)
(* in a document viewer (src/main.ts).                                     *)
(*                                                                         *)
(* Every evaluate* method of the Evaluator is one operator of the same     *)
(* name.  An operator takes the AST node, the id of the ExecutionContext   *)
(* the evaluator runs on (this.context) and the machine state st, and      *)
(* returns a completion record                                             *)
(*     [st, ctl, val]                                                      *)
(* where ctl = "normal" (val is the method's value) or ctl = "throw" (val  *)
(* is the thrown object: a RuntimeError, a ReturnValue, or the marker of   *)
(* a computation that does not terminate within the step budget).          *)
(*                                                                         *)
(* Representation                                                          *)
(*   string     a sequence of one-character strings, so that parseFloat,   *)
(*              String(), join and the ::: substitution are computed       *)
(*   number     a rational [n, d] in lowest terms with d > 0; -0 is 0      *)
(*              (the two are told apart only by a division, which the      *)
(*              evaluator refuses); NaN and the infinities never become a  *)
(*              value because no string of the model spells "Infinity"     *)
(*   array      a reference into the heap (arrays are JS objects)          *)
(*   T | undefined, T | null : the sequences << >> and << x >>             *)
(***************************************************************************)
EXTENDS Integers, Sequences, FiniteSets, TLC

VARIABLES scopes, heap, program, outcome, log, nEval, plugin, lexer

vars == <<scopes, heap, program, outcome, log, nEval, plugin, lexer>>

(***************************************************************************)
(* Bounds of the model.                                                    *)
(***************************************************************************)
\* evaluate() calls in one behaviour
MaxEvals == 3
\* loop iterations and function calls of one evaluate() call
MaxFuel == 6

(***************************************************************************)
(* Optional values and maps.                                               *)
(***************************************************************************)
None == << >>

Some(x) == << x >>

IsSome(o) == Len(o) > 0

The(o) == o[1]

EmptyMap == [k \in {} |-> k]

MapHas(m, k) == k \in DOMAIN m

MapGet(m, k) == IF k \in DOMAIN m THEN Some(m[k]) ELSE None

MapSet(m, k, v) == [x \in (DOMAIN m) \cup {k} |-> IF x = k THEN v ELSE m[x]]

(***************************************************************************)
(* JavaScript primitives the evaluator relies on.                          *)
(***************************************************************************)
Abs(i) == IF i < 0 THEN -i ELSE i

RECURSIVE GCD(_, _)
GCD(a, b) == IF b = 0 THEN a ELSE GCD(b, a % b)

RECURSIVE Pow10(_)
Pow10(k) == IF k = 0 THEN 1 ELSE 10 * Pow10(k - 1)

\* the number n/d, d # 0, in lowest terms
MkNum(n, d) ==
    LET s == IF d < 0 THEN -1 ELSE 1
        g == GCD(Abs(n), Abs(d))
    IN  [t |-> "number", n |-> (s * n) \div g, d |-> (s * d) \div g]

NumOf(i) == MkNum(i, 1)

Str(s) == [t |-> "string", s |-> s]

Bool(b) == [t |-> "boolean", b |-> b]

Arr(ref) == [t |-> "object", ref |-> ref]

NumAdd(a, b) == MkNum(a.n * b.d + b.n * a.d, a.d * b.d)

NumSub(a, b) == MkNum(a.n * b.d - b.n * a.d, a.d * b.d)

NumMul(a, b) == MkNum(a.n * b.n, a.d * b.d)

\* b # 0
NumDiv(a, b) == MkNum(a.n * b.d, a.d * b.n)

NumNeg(a) == MkNum(-a.n, a.d)

NumIsZero(a) == a.n = 0

NumLess(a, b) == a.n * b.d < b.n * a.d

\* Math.floor
NumFloor(a) == a.n \div a.d

\* the JS remainder: the sign of the dividend, the quotient truncated; b # 0
NumRem(a, b) ==
    LET x == a.n * b.d
        y == a.d * b.n
        q == (IF (x < 0) = (y < 0) THEN 1 ELSE -1) * (Abs(x) \div Abs(y))
    IN  NumSub(a, NumMul(b, NumOf(q)))

DigitChars == <<"0", "1", "2", "3", "4", "5", "6", "7", "8", "9">>

IsDigit(c) == \E k \in 1..10 : DigitChars[k] = c

DigitVal(c) == (CHOOSE k \in 1..10 : DigitChars[k] = c) - 1

IsSpace(c) == c \in {" ", "\t", "\n", "\r"}

RECURSIVE NatToChars(_)
NatToChars(k) ==
    IF k < 10 THEN <<DigitChars[k + 1]>>
    ELSE NatToChars(k \div 10) \o <<DigitChars[(k % 10) + 1]>>

\* the decimal digits of r/d, 0 <= r < d, at most k of them
RECURSIVE FracChars(_, _, _)
FracChars(r, d, k) ==
    IF r = 0 \/ k = 0 THEN << >>
    ELSE <<DigitChars[((r * 10) \div d) + 1]>> \o FracChars((r * 10) % d, d, k - 1)

\* Number.prototype.toString: exact for integers and terminating decimals
NumberToString(a) ==
    LET m == Abs(a.n)
        whole == NatToChars(m \div a.d)
        frac == FracChars(m % a.d, a.d, 16)
    IN  (IF a.n < 0 THEN <<"-">> ELSE << >>)
        \o whole \o (IF frac = << >> THEN << >> ELSE <<".">> \o frac)

RECURSIVE SkipSpaces(_, _)
SkipSpaces(s, i) ==
    IF i <= Len(s) /\ IsSpace(s[i]) THEN SkipSpaces(s, i + 1) ELSE i

\* Reading a decimal literal (sign, digits, fraction, exponent) one
\* character at a time.  m is the value of the mantissa's digits, f the
\* number of them after the dot, ex the exponent's digits; ok says that a
\* literal has been read and end is where the longest one ends (exclusive).
ScanStart(i) ==
    [phase |-> "start", neg |-> FALSE, m |-> 0, f |-> 0, eneg |-> FALSE,
     ex |-> 0, ok |-> FALSE, end |-> i]

ScanStep(q, c, i) ==
    CASE q.phase = "start" /\ c \in {"-", "+"} ->
            [q EXCEPT !.phase = "sign", !.neg = (c = "-")]
      [] q.phase \in {"start", "sign", "int"} /\ IsDigit(c) ->
            [q EXCEPT !.phase = "int", !.m = @ * 10 + DigitVal(c),
                      !.ok = TRUE, !.end = i + 1]
      [] q.phase \in {"start", "sign"} /\ c = "." ->
            [q EXCEPT !.phase = "dot"]
      \* "1." is the literal 1. ; "." alone is none
      [] q.phase = "int" /\ c = "." ->
            [q EXCEPT !.phase = "frac", !.end = i + 1]
      [] q.phase \in {"dot", "frac"} /\ IsDigit(c) ->
            [q EXCEPT !.phase = "frac", !.m = @ * 10 + DigitVal(c),
                      !.f = @ + 1, !.ok = TRUE, !.end = i + 1]
      [] q.phase \in {"int", "frac"} /\ c \in {"e", "E"} ->
            [q EXCEPT !.phase = "e"]
      [] q.phase = "e" /\ c \in {"-", "+"} ->
            [q EXCEPT !.phase = "esign", !.eneg = (c = "-")]
      [] q.phase \in {"e", "esign", "exp"} /\ IsDigit(c) ->
            [q EXCEPT !.phase = "exp", !.ex = @ * 10 + DigitVal(c),
                      !.end = i + 1]
      [] OTHER -> [q EXCEPT !.phase = "stop"]

RECURSIVE Scan(_, _, _)
Scan(s, i, q) ==
    IF i > Len(s) \/ q.phase = "stop" THEN q
    ELSE Scan(s, i + 1, ScanStep(q, s[i], i))

ScanScaled(q, mant) ==
    IF q.eneg THEN NumDiv(mant, NumOf(Pow10(q.ex)))
    ELSE NumMul(mant, NumOf(Pow10(q.ex)))

ScanResult(q) ==
    [ok |-> q.ok,
     num |-> ScanScaled(q, MkNum(IF q.neg THEN -q.m ELSE q.m, Pow10(q.f))),
     end |-> q.end]

\* The longest prefix of s from index i that is a decimal literal:
\* [ok, num, end]; ok is FALSE when there is none (JS: NaN).
ScanDecimal(s, i) == ScanResult(Scan(s, i, ScanStart(i)))

\* parseFloat(s): None is NaN
ParseFloatOf(r) == IF r.ok THEN Some(r.num) ELSE None

ParseFloat(s) == ParseFloatOf(ScanDecimal(s, SkipSpaces(s, 1)))

\* Number(s), the ToNumber of a string: the whole trimmed string must be a
\* literal, and the empty string is 0.  None is NaN.
StringToNumberOf(s, i, r) ==
    IF i > Len(s) THEN Some(NumOf(0))
    ELSE IF r.ok /\ SkipSpaces(s, r.end) > Len(s) THEN Some(r.num)
    ELSE None

StringToNumber(s) ==
    StringToNumberOf(s, SkipSpaces(s, 1), ScanDecimal(s, SkipSpaces(s, 1)))

RECURSIVE JoinChars(_, _)
\* Array.prototype.join over strings
JoinChars(parts, sep) ==
    IF Len(parts) = 0 THEN << >>
    ELSE IF Len(parts) = 1 THEN parts[1]
    ELSE parts[1] \o sep \o JoinChars(Tail(parts), sep)

ObjectObject ==
    <<"[", "o", "b", "j", "e", "c", "t", " ", "O", "b", "j", "e", "c", "t", "]">>

\* String(v) of an EvaluatedValue's value field.  The elements of an array
\* are EvaluatedValue objects, each printing as [object Object].
JsToString(v, h) ==
    CASE v.t = "string" -> v.s
      [] v.t = "number" -> NumberToString(v)
      [] v.t = "boolean" ->
            IF v.b THEN <<"t", "r", "u", "e">> ELSE <<"f", "a", "l", "s", "e">>
      [] v.t = "object" ->
            JoinChars([k \in 1..Len(h[v.ref]) |-> ObjectObject], <<",">>)

\* ===, on value fields: primitives by type and value, arrays by identity
StrictEquals(a, b) == a = b

(***************************************************************************)
(* Thrown objects and completions.                                         *)
(***************************************************************************)
\* class RuntimeError: the message without its interpolated operands
RuntimeError(message, line, column) ==
    [name |-> "RuntimeError", message |-> message, line |-> line, column |-> column]

\* class ReturnValue: value is None for a bare return
ReturnValue(value) == [name |-> "ReturnValue", value |-> value]

\* the evaluation did not finish within MaxFuel iterations and calls: in
\* the program, a loop that never ends or a call stack that overflows
Unbounded == [name |-> "Unbounded"]

Normal(st, v) == [st |-> st, ctl |-> "normal", val |-> v]

Throw(st, e) == [st |-> st, ctl |-> "throw", val |-> e]

\* interface EvaluatedValue, with neither styles nor children
EvaluatedValue(value, isMarkdown) ==
    [value |-> value, isMarkdown |-> isMarkdown, styles |-> None, children |-> None]

\* node.styles.length > 0 ? node.styles : otherwise
StylesOr(styles, otherwise) == IF Len(styles) > 0 THEN Some(styles) ELSE otherwise

\* one more event of the trace of this evaluate() call
Emit(st, e) == [st EXCEPT !.log = Append(@, e)]

\* one unit of the step budget
Spend(st) == [st EXCEPT !.fuel = @ - 1]

(***************************************************************************)
(* class ExecutionContext.  A context is an index into st.scopes.          *)
(***************************************************************************)
NewContext(parent, globalContext) ==
    [variables |-> EmptyMap, functions |-> EmptyMap,
     parent |-> parent, globalContext |-> globalContext]

setGlobalContext(sc, ctx, global) ==
    [sc EXCEPT ![ctx].globalContext = Some(global)]

getGlobalContext(sc, ctx) == sc[ctx].globalContext

\* the context an unflagged write ends in, with the shadowing rule dropped
setVariableMutant(st, ctx, name, value, isGlobal) ==
    LET this == st.scopes[ctx]
        target == IF isGlobal /\ IsSome(this.globalContext)
                  THEN The(this.globalContext)
                  ELSE ctx
        after == [st.scopes EXCEPT ![target].variables = MapSet(@, name, value)]
    IN  Emit([st EXCEPT !.scopes = after],
             [op |-> "setVariable", ctx |-> ctx, name |-> name, value |-> value,
              isGlobal |-> isGlobal, before |-> st.scopes, after |-> after])

setVariable(st, ctx, name, value, isGlobal) ==
    LET this == st.scopes[ctx]
        target == IF isGlobal /\ IsSome(this.globalContext)
                  THEN The(this.globalContext)
                  ELSE IF IsSome(this.globalContext)
                          /\ MapHas(st.scopes[The(this.globalContext)].variables, name)
                       THEN The(this.globalContext)
                       ELSE ctx
        after == [st.scopes EXCEPT ![target].variables = MapSet(@, name, value)]
    IN  Emit([st EXCEPT !.scopes = after],
             [op |-> "setVariable", ctx |-> ctx, name |-> name, value |-> value,
              isGlobal |-> isGlobal, before |-> st.scopes, after |-> after])

RECURSIVE getVariableMutant(_, _, _)
\* the parent chain before the global scope
getVariableMutant(sc, ctx, name) ==
    LET this == sc[ctx]
        up == IF IsSome(this.parent)
              THEN getVariableMutant(sc, The(this.parent), name)
              ELSE None
    IN  IF MapHas(this.variables, name) THEN Some(this.variables[name])
        ELSE IF IsSome(up) THEN up
        ELSE IF IsSome(this.globalContext)
             THEN MapGet(sc[The(this.globalContext)].variables, name)
             ELSE None

RECURSIVE getVariable(_, _, _)
getVariable(sc, ctx, name) ==
    LET this == sc[ctx]
    IN  IF MapHas(this.variables, name) THEN Some(this.variables[name])
        ELSE IF IsSome(this.globalContext)
                /\ MapHas(sc[The(this.globalContext)].variables, name)
             THEN Some(sc[The(this.globalContext)].variables[name])
        ELSE IF IsSome(this.parent) THEN getVariable(sc, The(this.parent), name)
        ELSE None

RECURSIVE hasVariable(_, _, _)
hasVariable(sc, ctx, name) ==
    LET this == sc[ctx]
    IN  \/ MapHas(this.variables, name)
        \/ (IsSome(this.globalContext)
            /\ MapHas(sc[The(this.globalContext)].variables, name))
        \/ (IsSome(this.parent) /\ hasVariable(sc, The(this.parent), name))

isGlobalVariable(sc, ctx, name) ==
    IsSome(sc[ctx].globalContext)
    /\ MapHas(sc[The(sc[ctx].globalContext)].variables, name)

\* interface FunctionDefinition
FunctionDefinition(params, styles, body) ==
    [params |-> params, styles |-> styles, body |-> body]

\* a setFunction that, like setVariable, writes to the global context when
\* the global context already defines the name
setFunctionMutant(st, ctx, name, func, isGlobal) ==
    LET this == st.scopes[ctx]
        target == IF IsSome(this.globalContext)
                     /\ (isGlobal
                         \/ MapHas(st.scopes[The(this.globalContext)].functions, name))
                  THEN The(this.globalContext)
                  ELSE ctx
        after == [st.scopes EXCEPT ![target].functions = MapSet(@, name, func)]
    IN  Emit([st EXCEPT !.scopes = after],
             [op |-> "setFunction", ctx |-> ctx, name |-> name, func |-> func,
              isGlobal |-> isGlobal, before |-> st.scopes, after |-> after])

setFunction(st, ctx, name, func, isGlobal) ==
    LET this == st.scopes[ctx]
        target == IF isGlobal /\ IsSome(this.globalContext)
                  THEN The(this.globalContext)
                  ELSE ctx
        after == [st.scopes EXCEPT ![target].functions = MapSet(@, name, func)]
    IN  Emit([st EXCEPT !.scopes = after],
             [op |-> "setFunction", ctx |-> ctx, name |-> name, func |-> func,
              isGlobal |-> isGlobal, before |-> st.scopes, after |-> after])

RECURSIVE getFunction(_, _, _)
getFunction(sc, ctx, name) ==
    LET this == sc[ctx]
    IN  IF MapHas(this.functions, name) THEN Some(this.functions[name])
        ELSE IF IsSome(this.globalContext)
                /\ MapHas(sc[The(this.globalContext)].functions, name)
             THEN Some(sc[The(this.globalContext)].functions[name])
        ELSE IF IsSome(this.parent) THEN getFunction(sc, The(this.parent), name)
        ELSE None

(***************************************************************************)
(* class Evaluator: conversions.                                           *)
(***************************************************************************)
\* toNumber: [ok, num] or [ok, error]
toNumber(value, line, column) ==
    CASE value.t = "number" -> [ok |-> TRUE, num |-> value]
      [] value.t = "boolean" ->
            [ok |-> TRUE, num |-> IF value.b THEN NumOf(1) ELSE NumOf(0)]
      [] value.t = "object" ->
            [ok |-> FALSE,
             error |-> RuntimeError("Cannot convert array to number", line, column)]
      [] value.t = "string" ->
            LET num == ParseFloat(value.s)
            IN  IF num = None
                THEN [ok |-> FALSE,
                      error |-> RuntimeError("Cannot convert to number", line, column)]
                ELSE [ok |-> TRUE, num |-> The(num)]

toBoolean(value) ==
    CASE value.t = "boolean" -> value.b
      [] value.t = "number" -> ~NumIsZero(value)
      [] value.t = "object" -> TRUE
      [] value.t = "string" -> value.s # << >>

\* the character U+0060, which a string of this module cannot hold
Backtick == "backtick"

RECURSIVE convertCodeBlocks(_)
\* every ::: becomes a fence of three backticks; the language tag after it stays
convertCodeBlocks(text) ==
    IF Len(text) = 0 THEN << >>
    ELSE IF Len(text) >= 3 /\ text[1] = ":" /\ text[2] = ":" /\ text[3] = ":"
         THEN <<Backtick, Backtick, Backtick>> \o convertCodeBlocks(SubSeq(text, 4, Len(text)))
         ELSE <<text[1]>> \o convertCodeBlocks(Tail(text))

\* The JS operator + on two values neither of which is a string: an array
\* operand makes it a concatenation of the operand string forms, anything
\* else adds numbers (true is 1, false is 0).
JsPlus(l, r, h) ==
    IF l.t = "object" \/ r.t = "object"
    THEN Str(JsToString(l, h) \o JsToString(r, h))
    ELSE NumAdd(toNumber(l, 0, 0).num, toNumber(r, 0, 0).num)

\* ToPrimitive: an array becomes its string form
JsToPrimitive(v, h) == IF v.t = "object" THEN Str(JsToString(v, h)) ELSE v

\* the order of the characters of the model's strings by code unit
CharOrder ==
    <<"\t", "\n", "\r", " ", "+", ",", "-", ".", "0", "1", "2", "3", "4", "5", "6",
      "7", "8", "9", ":", "E", "O", "[", "]", Backtick, "a", "b", "c", "e", "f", "j",
      "l", "o", "r", "s", "t", "u", "x", "y">>

CharCode(c) == CHOOSE k \in 1..Len(CharOrder) : CharOrder[k] = c

RECURSIVE StringLess(_, _)
StringLess(a, b) ==
    IF Len(b) = 0 THEN FALSE
    ELSE IF Len(a) = 0 THEN TRUE
    ELSE IF a[1] = b[1] THEN StringLess(Tail(a), Tail(b))
    ELSE CharCode(a[1]) < CharCode(b[1])

\* The abstract relational comparison l < r of JS: "true", "false" or
\* "undefined" (an operand is NaN).
JsLess(l, r, h) ==
    LET number(p) == IF p.t = "string" THEN StringToNumber(p.s)
                     ELSE Some(toNumber(p, 0, 0).num)
        numbers(nl, nr) ==
            IF nl = None \/ nr = None THEN "undefined"
            ELSE IF NumLess(The(nl), The(nr)) THEN "true" ELSE "false"
        primitives(pl, pr) ==
            IF pl.t = "string" /\ pr.t = "string"
            THEN (IF StringLess(pl.s, pr.s) THEN "true" ELSE "false")
            ELSE numbers(number(pl), number(pr))
    IN  primitives(JsToPrimitive(l, h), JsToPrimitive(r, h))

(***************************************************************************)
(* class Evaluator.  ctx is this.context; st = [scopes, heap, log, fuel].  *)
(***************************************************************************)
Failed(r) == r.ctl # "normal"

\* The recursive descent of the evaluator: evaluateStatement when
\* asStatement, evaluateExpression otherwise (the two switches are at the
\* end of this section).
RECURSIVE evaluateNode(_, _, _, _)

evaluateStatement(statement, ctx, st) == evaluateNode(TRUE, statement, ctx, st)

evaluateExpression(expr, ctx, st) == evaluateNode(FALSE, expr, ctx, st)

RECURSIVE evaluateAll(_, _, _)
\* exprs.map((e) => this.evaluateExpression(e)): left to right, the first
\* throw ends it
evaluateAll(exprs, ctx, st) ==
    IF Len(exprs) = 0 THEN Normal(st, << >>)
    ELSE LET r == evaluateExpression(exprs[1], ctx, st)
             rest == evaluateAll(Tail(exprs), ctx, r.st)
         IN  IF Failed(r) THEN r
             ELSE IF Failed(rest) THEN rest
             ELSE Normal(rest.st, <<r.val>> \o rest.val)

RECURSIVE evaluateStatementsMutant(_, _, _, _)
\* a loop that runs the remaining statements before it lets the error out
evaluateStatementsMutant(stmts, ctx, st, results) ==
    LET after(r, rest) == Throw(rest.st, r.val)
        next(r) ==
            IF Failed(r)
            THEN after(r, evaluateStatementsMutant(Tail(stmts), ctx, r.st, results))
            ELSE evaluateStatementsMutant(Tail(stmts), ctx, r.st, results \o r.val)
    IN  IF Len(stmts) = 0 THEN Normal(st, results)
        ELSE next(evaluateStatement(stmts[1], ctx, st))

RECURSIVE evaluateStatements(_, _, _, _)
\* for (const stmt of stmts) { const result = evaluateStatement(stmt);
\*                             if (result) results.push(result); }
evaluateStatements(stmts, ctx, st, results) ==
    LET next(r) ==
            IF Failed(r) THEN r
            ELSE evaluateStatements(Tail(stmts), ctx, r.st, results \o r.val)
    IN  IF Len(stmts) = 0 THEN Normal(st, results)
        ELSE next(evaluateStatement(stmts[1], ctx, st))

\* results.map((r) => r.value).join(sep)
joinValues(values, sep, h) ==
    Str(JoinChars([k \in 1..Len(values) |-> JsToString(values[k].value, h)], sep))

\* results.some((r) => r.isMarkdown)
someMarkdown(values) == \E k \in 1..Len(values) : values[k].isMarkdown

evaluate(prog, ctx, st) == evaluateStatements(prog.statements, ctx, st, << >>)

evaluateVariableDeclaration(node, ctx, st) ==
    LET value == evaluateExpression(node.value, ctx, st)
    IN  IF Failed(value) THEN value
        ELSE Normal(setVariable(Emit(value.st, [op |-> "assign", ctx |-> ctx,
                                                name |-> node.name,
                                                isGlobal |-> node.isGlobal,
                                                source |-> node.value]),
                                ctx, node.name, value.val, node.isGlobal),
                    None)

evaluateString(node, ctx, st) ==
    Normal(st, EvaluatedValue(
                  Str(IF node.isMarkdown THEN convertCodeBlocks(node.value)
                      ELSE node.value),
                  node.isMarkdown))

RECURSIVE templateParts(_, _, _, _)
\* the loop over node.parts of evaluateTemplateString
templateParts(parts, ctx, st, result) ==
    IF Len(parts) = 0 THEN Normal(st, result)
    ELSE IF parts[1].type = "text"
         THEN templateParts(Tail(parts), ctx, st, result \o parts[1].value)
         ELSE LET value == evaluateExpression(parts[1].expr, ctx, st)
              IN  IF Failed(value) THEN value
                  ELSE templateParts(Tail(parts), ctx, value.st,
                         result \o JsToString(value.val.value, value.st.heap))

evaluateTemplateString(node, ctx, st) ==
    LET result == templateParts(node.parts, ctx, st, << >>)
    IN  IF Failed(result) THEN result
        ELSE Normal(result.st,
                    EvaluatedValue(Str(convertCodeBlocks(result.val)), TRUE))

\* a counter outside the contexts (the arrays made so far) read by a literal
evaluateNumberMutant(node, ctx, st) ==
    Normal(st, EvaluatedValue(NumAdd(node.value, NumOf(Len(st.heap))), TRUE))

evaluateNumber(node, ctx, st) == Normal(st, EvaluatedValue(node.value, TRUE))

evaluateBoolean(node, ctx, st) == Normal(st, EvaluatedValue(node.value, FALSE))

evaluateArray(node, ctx, st) ==
    LET elements == evaluateAll(node.elements, ctx, st)
        ref == Len(elements.st.heap) + 1
    IN  IF Failed(elements) THEN elements
        ELSE Normal([elements.st EXCEPT !.heap = Append(@, elements.val)],
                    EvaluatedValue(Arr(ref), FALSE))

\* a bounds check that also rejects the first element
outOfBoundsMutant(index, length) == index <= 0 \/ index >= length

\* index < 0 || index >= array.length

outOfBounds(index, length) == index < 0 \/ index >= length

evaluateArrayIndex(node, ctx, st) ==
    LET arrayValue == evaluateExpression(node.array, ctx, st)
        indexValue == evaluateExpression(node.index, ctx, arrayValue.st)
        index == NumFloor(indexValue.val.value)
        array == indexValue.st.heap[arrayValue.val.value.ref]
        outOfBoundsError == RuntimeError("Array index out of bounds",
                                         node.line, node.column)
        checked == [op |-> "index", ctx |-> ctx, write |-> FALSE,
                    ref |-> arrayValue.val.value.ref, index |-> index,
                    length |-> Len(array)]
    IN  IF Failed(arrayValue) THEN arrayValue
        ELSE IF Failed(indexValue) THEN indexValue
        ELSE IF arrayValue.val.value.t # "object"
             THEN Throw(indexValue.st,
                        RuntimeError("Cannot index non-array value",
                                     node.line, node.column))
        ELSE IF indexValue.val.value.t # "number"
             THEN Throw(indexValue.st,
                        RuntimeError("Array index must be a number",
                                     node.line, node.column))
        ELSE IF outOfBounds(index, Len(array))
             THEN Throw(Emit(indexValue.st,
                             checked @@ [error |-> Some(outOfBoundsError)]),
                        outOfBoundsError)
        ELSE Normal(Emit(indexValue.st, checked @@ [error |-> None]),
                    array[index + 1])

evaluateArrayIndexAssignment(node, ctx, st) ==
    LET value == evaluateExpression(node.value, ctx, st)
        arrayValue == getVariable(value.st.scopes, ctx, node.array.name)
        indexValue == evaluateExpression(node.index, ctx, value.st)
        index == NumFloor(indexValue.val.value)
        ref == The(arrayValue).value.ref
        array == indexValue.st.heap[ref]
        outOfBoundsError == RuntimeError("Array index out of bounds",
                                         node.line, node.column)
        checked == [op |-> "index", ctx |-> ctx, write |-> TRUE, ref |-> ref,
                    index |-> index, length |-> Len(array)]
        assigned == [indexValue.st EXCEPT !.heap[ref][index + 1] = value.val]
    IN  IF Failed(value) THEN value
        ELSE IF node.array.type # "Identifier"
             THEN Throw(value.st,
                        RuntimeError("Can only assign to array variable, not expression",
                                     node.line, node.column))
        ELSE IF arrayValue = None
             THEN Throw(value.st,
                        RuntimeError("Undefined variable", node.line, node.column))
        ELSE IF The(arrayValue).value.t # "object"
             THEN Throw(value.st,
                        RuntimeError("Cannot index non-array value",
                                     node.line, node.column))
        ELSE IF Failed(indexValue) THEN indexValue
        ELSE IF indexValue.val.value.t # "number"
             THEN Throw(indexValue.st,
                        RuntimeError("Array index must be a number",
                                     node.line, node.column))
        ELSE IF outOfBounds(index, Len(array))
             THEN Throw(Emit(indexValue.st,
                             checked @@ [error |-> Some(outOfBoundsError)]),
                        outOfBoundsError)
        ELSE Normal(Emit(Emit(assigned, checked @@ [error |-> None]),
                         [op |-> "setIndex", ctx |-> ctx, name |-> node.array.name,
                          ref |-> ref, index |-> index, value |-> value.val,
                          before |-> indexValue.st.heap, after |-> assigned.heap,
                          scopes |-> assigned.scopes]),
                    None)

evaluateIdentifier(node, ctx, st) ==
    LET value == getVariable(st.scopes, ctx, node.name)
        seen == Emit(st, [op |-> "getVariable", ctx |-> ctx, name |-> node.name,
                          result |-> value, scopes |-> st.scopes])
    IN  IF value = None
        THEN Throw(seen, RuntimeError("Undefined variable", node.line, node.column))
        ELSE Normal(seen, The(value))

evaluateConcatenation(node, ctx, st) ==
    LET parts == evaluateAll(node.parts, ctx, st)
    IN  IF Failed(parts) THEN parts
        ELSE Normal(parts.st,
                    EvaluatedValue(joinValues(parts.val, << >>, parts.st.heap),
                                   someMarkdown(parts.val)))

\* the six comparison operators on two evaluated operands
compare(operator, left, right, h) ==
    CASE operator = "==" -> StrictEquals(left.value, right.value)
      [] operator = "!=" -> ~StrictEquals(left.value, right.value)
      [] operator = "<" -> JsLess(left.value, right.value, h) = "true"
      [] operator = "<=" -> JsLess(right.value, left.value, h) = "false"
      [] operator = ">" -> JsLess(right.value, left.value, h) = "true"
      [] operator = ">=" -> JsLess(left.value, right.value, h) = "false"

\* + that coerces a numeric string operand to a number
plusMutant(left, right, h) ==
    IF (left.value.t = "string" /\ ParseFloat(left.value.s) = None)
       \/ (right.value.t = "string" /\ ParseFloat(right.value.s) = None)
    THEN EvaluatedValue(
            Str(JsToString(left.value, h) \o JsToString(right.value, h)),
            left.isMarkdown \/ right.isMarkdown)
    ELSE EvaluatedValue(
            JsPlus(IF left.value.t = "string" THEN The(ParseFloat(left.value.s))
                   ELSE left.value,
                   IF right.value.t = "string" THEN The(ParseFloat(right.value.s))
                   ELSE right.value, h),
            TRUE)

\* the operator + on two evaluated operands
plus(left, right, h) ==
    IF left.value.t = "string" \/ right.value.t = "string"
    THEN EvaluatedValue(
            Str(JsToString(left.value, h) \o JsToString(right.value, h)),
            left.isMarkdown \/ right.isMarkdown)
    ELSE EvaluatedValue(JsPlus(left.value, right.value, h), TRUE)

\* - * / % without the zero checks: a zero divisor yields an infinity or NaN
\* (written n/0) instead of a throw
arithmeticMutant(node, leftNum, rightNum, st) ==
    CASE node.operator = "-" -> Normal(st, EvaluatedValue(NumSub(leftNum, rightNum), TRUE))
      [] node.operator = "*" -> Normal(st, EvaluatedValue(NumMul(leftNum, rightNum), TRUE))
      [] node.operator = "/" ->
            IF NumIsZero(rightNum)
            THEN Normal(st, EvaluatedValue(
                               [t |-> "number", d |-> 0,
                                n |-> IF leftNum.n > 0 THEN 1
                                      ELSE IF leftNum.n < 0 THEN -1 ELSE 0],
                               TRUE))
            ELSE Normal(st, EvaluatedValue(NumDiv(leftNum, rightNum), TRUE))
      [] node.operator = "%" ->
            IF NumIsZero(rightNum)
            THEN Normal(st, EvaluatedValue([t |-> "number", n |-> 0, d |-> 0], TRUE))
            ELSE Normal(st, EvaluatedValue(NumRem(leftNum, rightNum), TRUE))
      [] OTHER ->
            Throw(st, RuntimeError("Unknown binary operator", node.line, node.column))

\* the switch over - * / % on two numbers
arithmetic(node, leftNum, rightNum, st) ==
    CASE node.operator = "-" -> Normal(st, EvaluatedValue(NumSub(leftNum, rightNum), TRUE))
      [] node.operator = "*" -> Normal(st, EvaluatedValue(NumMul(leftNum, rightNum), TRUE))
      [] node.operator = "/" ->
            IF NumIsZero(rightNum)
            THEN Throw(st, RuntimeError("Division by zero", node.line, node.column))
            ELSE Normal(st, EvaluatedValue(NumDiv(leftNum, rightNum), TRUE))
      [] node.operator = "%" ->
            IF NumIsZero(rightNum)
            THEN Throw(st, RuntimeError("Modulo by zero", node.line, node.column))
            ELSE Normal(st, EvaluatedValue(NumRem(leftNum, rightNum), TRUE))
      [] OTHER ->
            Throw(st, RuntimeError("Unknown binary operator", node.line, node.column))

\* a logical operator that always evaluates its right operand
shortCircuitsMutant(operator, leftBool) == FALSE

\* if (node.operator === "&&" && !leftBool) ... if (node.operator === "||" && leftBool)
shortCircuits(operator, leftBool) ==
    \/ operator = "&&" /\ ~leftBool
    \/ operator = "||" /\ leftBool

evaluateBinaryOp(node, ctx, st) ==
    LET left == evaluateExpression(node.left, ctx, st)
        right == evaluateExpression(node.right, ctx, left.st)
        leftBool == toBoolean(left.val.value)
        leftNum == toNumber(left.val.value, node.line, node.column)
        rightNum == toNumber(right.val.value, node.line, node.column)
    IN  IF Failed(left) THEN left
        ELSE IF node.operator \in {"&&", "||"}
        THEN LET decided(r) ==
                    IF Failed(r) THEN r
                    ELSE Normal(r.st, EvaluatedValue(Bool(toBoolean(r.val.value)), FALSE))
                 logical(r) ==
                    [r EXCEPT
                        !.st = Emit(@, [op |-> "logical", ctx |-> ctx,
                                        operator |-> node.operator, left |-> left.val,
                                        from |-> Len(left.st.log),
                                        before |-> left.st.scopes,
                                        heap |-> left.st.heap,
                                        ctl |-> r.ctl, val |-> r.val,
                                        after |-> r.st.scopes,
                                        heapAfter |-> r.st.heap])]
             IN  logical(IF shortCircuits(node.operator, leftBool)
                         THEN Normal(left.st,
                                     EvaluatedValue(Bool(node.operator = "||"), FALSE))
                         ELSE decided(right))
        ELSE IF Failed(right) THEN right
        ELSE IF node.operator \in {"==", "!=", "<", "<=", ">", ">="}
        THEN Normal(right.st,
                    EvaluatedValue(Bool(compare(node.operator, left.val, right.val,
                                                right.st.heap)),
                                   FALSE))
        ELSE LET numeric(l, r) ==
                    IF ~l.ok THEN Throw(right.st, l.error)
                    ELSE IF ~r.ok THEN Throw(right.st, r.error)
                    ELSE arithmetic(node, l.num, r.num, right.st)
                 traced(applied) ==
                    [applied EXCEPT
                        !.st = Emit(@, [op |-> "binary", ctx |-> ctx,
                                        operator |-> node.operator,
                                        left |-> left.val, right |-> right.val,
                                        ctl |-> applied.ctl, val |-> applied.val])]
             IN  traced(IF node.operator = "+"
                        THEN Normal(right.st, plus(left.val, right.val, right.st.heap))
                        ELSE numeric(leftNum, rightNum))

evaluateUnaryOp(node, ctx, st) ==
    LET operand == evaluateExpression(node.operand, ctx, st)
        negated(numValue) ==
            IF ~numValue.ok THEN Throw(operand.st, numValue.error)
            ELSE Normal(operand.st, EvaluatedValue(NumNeg(numValue.num), TRUE))
        current == getVariable(st.scopes, ctx, node.operand.name)
        isGlobalVar == isGlobalVariable(st.scopes, ctx, node.operand.name)
        yielded(after, value) ==
            Normal(Emit(after, [op |-> "unary", ctx |-> ctx, operator |-> node.operator,
                                prefix |-> node.prefix, name |-> node.operand.name,
                                before |-> st.scopes, after |-> after.scopes,
                                value |-> value]),
                   value)
        written(currentNum, newValue) ==
            yielded(setVariable(st, ctx, node.operand.name,
                                EvaluatedValue(newValue, TRUE), isGlobalVar),
                    EvaluatedValue(IF node.prefix THEN newValue ELSE currentNum, TRUE))
        stepped(currentNum) ==
            IF ~currentNum.ok THEN Throw(st, currentNum.error)
            ELSE written(currentNum.num,
                         IF node.operator = "++"
                         THEN NumAdd(currentNum.num, NumOf(1))
                         ELSE NumSub(currentNum.num, NumOf(1)))
    IN  IF node.operator = "!"
        THEN IF Failed(operand) THEN operand
             ELSE Normal(operand.st,
                         EvaluatedValue(Bool(~toBoolean(operand.val.value)), FALSE))
        ELSE IF node.operator = "-"
        THEN IF Failed(operand) THEN operand
             ELSE negated(toNumber(operand.val.value, node.line, node.column))
        ELSE IF "name" \notin DOMAIN node.operand
        THEN Throw(st, RuntimeError("requires a variable", node.line, node.column))
        ELSE IF current = None
        THEN Throw(st, RuntimeError("Undefined variable", node.line, node.column))
        ELSE stepped(toNumber(The(current).value, node.line, node.column))

evaluateFunctionDefinition(node, ctx, st) ==
    Normal(setFunction(st, ctx, node.name,
                       FunctionDefinition(node.params, node.styles, node.body),
                       node.isGlobal),
           None)

evaluateReturn(node, ctx, st) ==
    LET value == evaluateExpression(The(node.value), ctx, st)
    IN  IF IsSome(node.value)
        THEN IF Failed(value) THEN value
             ELSE Throw(Emit(value.st, [op |-> "return", ctx |-> ctx,
                                        value |-> Some(value.val)]),
                        ReturnValue(Some(value.val)))
        ELSE Throw(Emit(st, [op |-> "return", ctx |-> ctx, value |-> None]),
                   ReturnValue(None))

RECURSIVE evaluateStatementBlockFrom(_, _, _, _)
\* the loop of evaluateStatementBlock, lastValue so far
evaluateStatementBlockFrom(statements, ctx, st, lastValue) ==
    IF Len(statements) = 0 THEN Normal(st, lastValue)
    ELSE LET result == evaluateStatement(statements[1], ctx, st)
         IN  IF Failed(result) THEN result
             ELSE evaluateStatementBlockFrom(
                     Tail(statements), ctx, result.st,
                     IF result.val # None THEN result.val ELSE lastValue)

evaluateStatementBlock(statements, ctx, st) ==
    evaluateStatementBlockFrom(statements, ctx, st, None)

\* an if statement that looks at no else-if clause
evaluateElseIfsMutant(node, elseIfs, ctx, st) ==
    IF IsSome(node.else)
    THEN evaluateStatementBlock(The(node.else), ctx, st)
    ELSE Normal(st, None)

RECURSIVE evaluateElseIfs(_, _, _, _)
\* the loop over node.elseIfs, then the else block
evaluateElseIfs(node, elseIfs, ctx, st) ==
    IF Len(elseIfs) = 0
    THEN IF IsSome(node.else)
         THEN evaluateStatementBlock(The(node.else), ctx, st)
         ELSE Normal(st, None)
    ELSE LET elseIfCondition == evaluateExpression(elseIfs[1].condition, ctx, st)
         IN  IF Failed(elseIfCondition) THEN elseIfCondition
             ELSE IF toBoolean(elseIfCondition.val.value)
             THEN evaluateStatementBlock(elseIfs[1].then, ctx, elseIfCondition.st)
             ELSE evaluateElseIfs(node, Tail(elseIfs), ctx, elseIfCondition.st)

evaluateIfStatement(node, ctx, st) ==
    LET conditionResult == evaluateExpression(node.condition, ctx, st)
    IN  IF Failed(conditionResult) THEN conditionResult
        ELSE IF toBoolean(conditionResult.val.value)
        THEN evaluateStatementBlock(node.then, ctx, conditionResult.st)
        ELSE evaluateElseIfs(node, node.elseIfs, ctx, conditionResult.st)

\* what a for or a while statement makes of the values of its iterations
foldLoopResults(values, st) ==
    IF Len(values) = 0 THEN Normal(st, None)
    ELSE IF Len(values) = 1 THEN Normal(st, Some(values[1]))
    ELSE Normal(st, Some(EvaluatedValue(joinValues(values, <<" ">>, st.heap),
                                        someMarkdown(values))))

RECURSIVE forLoop(_, _, _, _)
\* the while (true) of evaluateForStatement
forLoop(node, ctx, st, values) ==
    LET here == [ctx |-> ctx, line |-> node.line, column |-> node.column]
        conditionValue ==
            evaluateExpression(node.condition, ctx,
                               Emit(Spend(st), [op |-> "for.condition"] @@ here))
        body == evaluateStatements(node.body, ctx,
                                   Emit(conditionValue.st, [op |-> "for.body"] @@ here),
                                   values)
        update == evaluateExpression(node.update, ctx,
                                     Emit(body.st, [op |-> "for.update"] @@ here))
    IN  IF st.fuel = 0 THEN Throw(st, Unbounded)
        ELSE IF Failed(conditionValue) THEN conditionValue
        ELSE IF ~toBoolean(conditionValue.val.value)
        THEN foldLoopResults(values, conditionValue.st)
        ELSE IF Failed(body) THEN body
        ELSE IF Failed(update) THEN update
        ELSE forLoop(node, ctx, update.st, body.val)

evaluateForStatement(node, ctx, st) ==
    LET init == evaluateStatement(
                    node.init, ctx,
                    Emit(st, [op |-> "for.init", ctx |-> ctx,
                              line |-> node.line, column |-> node.column]))
    IN  IF Failed(init) THEN init
        ELSE forLoop(node, ctx, init.st, << >>)

RECURSIVE whileLoop(_, _, _, _)
\* the while (true) of evaluateWhileStatement
whileLoop(node, ctx, st, values) ==
    LET conditionValue == evaluateExpression(node.condition, ctx, Spend(st))
        body == evaluateStatements(node.body, ctx, conditionValue.st, values)
    IN  IF st.fuel = 0 THEN Throw(st, Unbounded)
        ELSE IF Failed(conditionValue) THEN conditionValue
        ELSE IF ~toBoolean(conditionValue.val.value)
        THEN foldLoopResults(values, conditionValue.st)
        ELSE IF Failed(body) THEN body
        ELSE whileLoop(node, ctx, body.st, body.val)

evaluateWhileStatement(node, ctx, st) == whileLoop(node, ctx, st, << >>)

evaluateAnonymousFunction(node, ctx, st) ==
    LET argValues == evaluateAll(node.args, ctx, st)
    IN  IF Failed(argValues) THEN argValues
        ELSE Normal(argValues.st,
                    [value |-> joinValues(argValues.val, <<" ">>, argValues.st.heap),
                     isMarkdown |-> someMarkdown(argValues.val),
                     styles |-> StylesOr(node.styles, None),
                     children |-> None])

\* a block that wraps a single value in a container as well
blockValueMutant(node, values, h) ==
    IF Len(values) = 0
    THEN [value |-> Str(<< >>), isMarkdown |-> TRUE,
          styles |-> StylesOr(node.styles, None), children |-> None]
    ELSE [value |-> joinValues(values, <<" ">>, h),
          isMarkdown |-> someMarkdown(values),
          styles |-> StylesOr(node.styles, None),
          children |-> Some(values)]

\* what evaluateBlock returns for the values its statements produced
blockValue(node, values, h) ==
    IF Len(values) = 0
    THEN [value |-> Str(<< >>), isMarkdown |-> TRUE,
          styles |-> StylesOr(node.styles, None), children |-> None]
    ELSE IF Len(values) = 1
    THEN [values[1] EXCEPT !.styles = StylesOr(node.styles, @)]
    ELSE [value |-> joinValues(values, <<" ">>, h),
          isMarkdown |-> someMarkdown(values),
          styles |-> StylesOr(node.styles, None),
          children |-> Some(values)]

evaluateBlock(node, ctx, st) ==
    LET yielded(r, v) ==
            Normal(Emit(r.st, [op |-> "block", ctx |-> ctx, node |-> node,
                               values |-> r.val, result |-> v]), v)
        ended(r) ==
            IF Failed(r) THEN r ELSE yielded(r, blockValue(node, r.val, r.st.heap))
    IN  ended(evaluateStatements(node.body, ctx, st, << >>))

RECURSIVE bindParametersMutant(_, _, _, _, _, _, _)
\* parameters with a default value: a missing argument binds the empty string
bindParametersMutant(funcDef, args, i, funcContext, st, line, column) ==
    IF i > Len(funcDef.params) THEN Normal(st, None)
    ELSE bindParametersMutant(funcDef, args, i + 1, funcContext,
                              setVariable(st, funcContext, funcDef.params[i],
                                          IF i > Len(args)
                                          THEN EvaluatedValue(Str(<< >>), TRUE)
                                          ELSE args[i],
                                          FALSE),
                              line, column)

RECURSIVE bindParameters(_, _, _, _, _, _, _)
\* the loop over funcDef.params of executeFunction, from parameter i
bindParameters(funcDef, args, i, funcContext, st, line, column) ==
    IF i > Len(funcDef.params) THEN Normal(st, None)
    ELSE IF i > Len(args)
         THEN Throw(st, RuntimeError("Missing argument for parameter", line, column))
         ELSE bindParameters(funcDef, args, i + 1, funcContext,
                             setVariable(st, funcContext, funcDef.params[i], args[i],
                                         FALSE),
                             line, column)

\* the result of a call whose body threw e: a ReturnValue is caught
caughtMutant(funcDef, e, st) ==
    IF e.name = "ReturnValue"
    THEN Normal(st, EvaluatedValue(Str(<< >>), TRUE))
    ELSE Throw(st, e)

caught(funcDef, e, st) ==
    IF e.name = "ReturnValue"
    THEN IF IsSome(e.value)
         THEN Normal(st, [The(e.value) EXCEPT !.styles = StylesOr(funcDef.styles, @)])
         ELSE Normal(st, EvaluatedValue(Str(<< >>), TRUE))
    ELSE Throw(st, e)

\* a fall-through that keeps only the last value of the body
fallThroughMutant(funcDef, values, st) ==
    IF Len(values) = 0 THEN Normal(st, EvaluatedValue(Str(<< >>), TRUE))
    ELSE Normal(st, [values[Len(values)] EXCEPT
                        !.styles = StylesOr(funcDef.styles, @)])

\* the result of a call whose body ran to its end and produced values
fallThrough(funcDef, values, st) ==
    IF Len(values) = 0 THEN Normal(st, EvaluatedValue(Str(<< >>), TRUE))
    ELSE IF Len(values) = 1
    THEN Normal(st, [values[1] EXCEPT !.styles = StylesOr(funcDef.styles, @)])
    ELSE Normal(st, [value |-> joinValues(values, <<" ">>, st.heap),
                     isMarkdown |-> someMarkdown(values),
                     styles |-> StylesOr(funcDef.styles, None),
                     children |-> Some(values)])

\* a call that leaves its context in place
leaveMutant(funcContext, r) ==
    [r EXCEPT !.st = Emit(r.st, [op |-> "exit", ctx |-> funcContext, ctl |-> r.ctl,
                                 val |-> r.val])]

\* The call is over: its context is garbage (nothing holds a context but
\* the evaluator of the call and the contexts of calls inside it).
leave(funcContext, r) ==
    [r EXCEPT !.st = Emit([r.st EXCEPT !.scopes = SubSeq(@, 1, funcContext - 1)],
                          [op |-> "exit", ctx |-> funcContext, ctl |-> r.ctl,
                           val |-> r.val])]

executeFunction(funcDef, args, line, column, ctx, st) ==
    LET funcContext == Len(st.scopes) + 1
        created == Append(st.scopes, NewContext(Some(ctx), None))
        globalCtx == getGlobalContext(st.scopes, ctx)
        attached == IF IsSome(globalCtx)
                    THEN setGlobalContext(created, funcContext, The(globalCtx))
                    ELSE created
        entered == Emit([Spend(st) EXCEPT !.scopes = attached],
                        [op |-> "call", ctx |-> funcContext, caller |-> ctx,
                         funcDef |-> funcDef, args |-> args])
        bound == bindParameters(funcDef, args, 1, funcContext, entered, line, column)
        implicit == IF ~hasVariable(bound.st.scopes, funcContext, "@content")
                    THEN setVariable(bound.st, funcContext, "@content",
                                     IF Len(args) > 0 THEN args[1]
                                     ELSE EvaluatedValue(Str(<< >>), TRUE),
                                     FALSE)
                    ELSE bound.st
        body == evaluateStatements(
                    funcDef.body, funcContext,
                    Emit(implicit, [op |-> "body", ctx |-> funcContext,
                                    funcDef |-> funcDef, args |-> args,
                                    before |-> st.scopes,
                                    scopes |-> implicit.scopes]),
                    << >>)
    IN  IF st.fuel = 0 THEN Throw(st, Unbounded)
        ELSE IF Failed(bound) THEN leave(funcContext, bound)
        ELSE IF Failed(body) THEN leave(funcContext, caught(funcDef, body.val, body.st))
        ELSE leave(funcContext,
                   fallThrough(funcDef, body.val,
                               Emit(body.st, [op |-> "results", ctx |-> funcContext,
                                              funcDef |-> funcDef,
                                              values |-> body.val,
                                              heap |-> body.st.heap])))

\* a call that evaluates its arguments before it looks the function up
evaluateFunctionCallMutant(node, ctx, st) ==
    LET argValues == evaluateAll(node.args, ctx, st)
        looked(r, funcDef) ==
            IF Failed(r) THEN r
            ELSE IF funcDef = None
            THEN Throw(Emit(r.st, [op |-> "getFunction", ctx |-> ctx, name |-> node.name,
                                   result |-> funcDef, scopes |-> r.st.scopes]),
                       RuntimeError("Undefined function", node.line, node.column))
            ELSE executeFunction(The(funcDef), r.val, node.line, node.column, ctx, r.st)
    IN  looked(argValues, getFunction(st.scopes, ctx, node.name))

evaluateFunctionCall(node, ctx, st) ==
    LET funcDef == getFunction(st.scopes, ctx, node.name)
        seen == Emit(st, [op |-> "getFunction", ctx |-> ctx, name |-> node.name,
                          result |-> funcDef, scopes |-> st.scopes])
        argValues == evaluateAll(node.args, ctx, seen)
    IN  IF funcDef = None
        THEN Throw(seen, RuntimeError("Undefined function", node.line, node.column))
        ELSE IF Failed(argValues) THEN argValues
        ELSE executeFunction(The(funcDef), argValues.val, node.line, node.column,
                             ctx, argValues.st)

\* an expression statement: its value is the statement's result
expressionStatement(statement, ctx, st) ==
    LET r == evaluateExpression(statement, ctx, st)
    IN  IF Failed(r) THEN r ELSE Normal(r.st, Some(r.val))

\* the switch of evaluateStatement
statementSwitch(statement, ctx, at) ==
    CASE statement.type = "Variable" -> evaluateVariableDeclaration(statement, ctx, at)
      [] statement.type = "Function" -> evaluateFunctionDefinition(statement, ctx, at)
      [] statement.type = "ArrayIndexAssignment" ->
            evaluateArrayIndexAssignment(statement, ctx, at)
      [] statement.type = "Return" -> evaluateReturn(statement, ctx, at)
      [] statement.type = "If" -> evaluateIfStatement(statement, ctx, at)
      [] statement.type = "For" -> evaluateForStatement(statement, ctx, at)
      [] statement.type = "While" -> evaluateWhileStatement(statement, ctx, at)
      [] statement.type \in {"String", "TemplateString", "Number", "Boolean",
                             "Identifier", "Array", "ArrayIndex", "Concatenation",
                             "BinaryOp", "UnaryOp", "FunctionCall",
                             "AnonymousFunction", "Block"} ->
            expressionStatement(statement, ctx, at)
      [] OTHER ->
            Throw(at, RuntimeError("Unknown statement type",
                                   statement.line, statement.column))

\* the switch of evaluateExpression
expressionSwitch(expr, ctx, st) ==
    CASE expr.type = "String" -> evaluateString(expr, ctx, st)
      [] expr.type = "TemplateString" -> evaluateTemplateString(expr, ctx, st)
      [] expr.type = "Number" -> evaluateNumber(expr, ctx, st)
      [] expr.type = "Boolean" -> evaluateBoolean(expr, ctx, st)
      [] expr.type = "Array" -> evaluateArray(expr, ctx, st)
      [] expr.type = "ArrayIndex" -> evaluateArrayIndex(expr, ctx, st)
      [] expr.type = "Identifier" -> evaluateIdentifier(expr, ctx, st)
      [] expr.type = "Concatenation" -> evaluateConcatenation(expr, ctx, st)
      [] expr.type = "BinaryOp" -> evaluateBinaryOp(expr, ctx, st)
      [] expr.type = "UnaryOp" -> evaluateUnaryOp(expr, ctx, st)
      [] expr.type = "FunctionCall" -> evaluateFunctionCall(expr, ctx, st)
      [] expr.type = "AnonymousFunction" -> evaluateAnonymousFunction(expr, ctx, st)
      [] expr.type = "Block" -> evaluateBlock(expr, ctx, st)
      [] OTHER ->
            Throw(st, RuntimeError("Unknown expression type", expr.line, expr.column))

evaluateNode(asStatement, node, ctx, st) ==
    IF asStatement
    THEN statementSwitch(node, ctx,
                         Emit(st, [op |-> "statement", ctx |-> ctx,
                                   type |-> node.type, line |-> node.line,
                                   column |-> node.column]))
    ELSE expressionSwitch(node, ctx, st)

(***************************************************************************)
(* AST nodes (the parser's output, src/unnamed/part_008).                  *)
(***************************************************************************)
StringNode(value, isMarkdown, l, c) ==
    [type |-> "String", value |-> value, isMarkdown |-> isMarkdown,
     line |-> l, column |-> c]

NumberNode(value, l, c) ==
    [type |-> "Number", value |-> value, line |-> l, column |-> c]

\* value is the boolean as a value of the language
BooleanNode(value, l, c) ==
    [type |-> "Boolean", value |-> Bool(value), line |-> l, column |-> c]

ArrayNode(elements, l, c) ==
    [type |-> "Array", elements |-> elements, line |-> l, column |-> c]

ArrayIndexNode(array, index, l, c) ==
    [type |-> "ArrayIndex", array |-> array, index |-> index, line |-> l, column |-> c]

ArrayIndexAssignmentNode(array, index, value, l, c) ==
    [type |-> "ArrayIndexAssignment", array |-> array, index |-> index,
     value |-> value, line |-> l, column |-> c]

IdentifierNode(name, l, c) ==
    [type |-> "Identifier", name |-> name, line |-> l, column |-> c]

BinaryOpNode(operator, left, right, l, c) ==
    [type |-> "BinaryOp", operator |-> operator, left |-> left, right |-> right,
     line |-> l, column |-> c]

UnaryOpNode(operator, operand, prefix, l, c) ==
    [type |-> "UnaryOp", operator |-> operator, operand |-> operand,
     prefix |-> prefix, line |-> l, column |-> c]

VariableNode(name, value, isGlobal, l, c) ==
    [type |-> "Variable", name |-> name, value |-> value, isGlobal |-> isGlobal,
     line |-> l, column |-> c]

FunctionNode(name, params, styles, body, isGlobal, l, c) ==
    [type |-> "Function", name |-> name, params |-> params, styles |-> styles,
     body |-> body, isGlobal |-> isGlobal, line |-> l, column |-> c]

FunctionCallNode(name, args, l, c) ==
    [type |-> "FunctionCall", name |-> name, args |-> args, line |-> l, column |-> c]

BlockNode(body, styles, l, c) ==
    [type |-> "Block", body |-> body, styles |-> styles, line |-> l, column |-> c]

IfNode(condition, then, elseIfs, else, l, c) ==
    [type |-> "If", condition |-> condition, then |-> then, elseIfs |-> elseIfs,
     else |-> else, line |-> l, column |-> c]

ForNode(init, condition, update, body, l, c) ==
    [type |-> "For", init |-> init, condition |-> condition, update |-> update,
     body |-> body, line |-> l, column |-> c]

WhileNode(condition, body, l, c) ==
    [type |-> "While", condition |-> condition, body |-> body, line |-> l, column |-> c]

ReturnNode(value, l, c) ==
    [type |-> "Return", value |-> value, line |-> l, column |-> c]

\* Parser.parse: the program node is at line 1, column 1
ProgramNode(statements) ==
    [type |-> "Program", statements |-> statements, line |-> 1, column |-> 1]

(***************************************************************************)
(* The embedding: one global context per document and a block context      *)
(* attached to it (main.ts, processMDLXBlock), or an Evaluator on a context*)
(* of its own with no global context (the Evaluator constructor).          *)
(***************************************************************************)
GlobalCtx == 1

BlockCtx == 2

NoProgram == ProgramNode(<< >>)

\* no Lexer has been constructed
NoLexer ==
    [source |-> << >>, pos |-> 0, line |-> 1, column |-> 1, tokens |-> << >>,
     status |-> "none", error |-> << >>, scan |-> << >>]

\* class MDLXPlugin before onload has registered anything: no document has a
\* global context, a queue or processed blocks
NoPlugin ==
    [globalContexts |-> EmptyMap, processingQueues |-> EmptyMap,
     processedBlocks |-> EmptyMap, processings |-> << >>, reading |-> {},
     resets |-> EmptyMap, opened |-> 0]

Init ==
    /\ \E attached \in BOOLEAN :
          scopes = <<NewContext(None, None),
                     NewContext(None, IF attached THEN Some(GlobalCtx) ELSE None)>>
    /\ heap = << >>
    /\ program = NoProgram
    /\ outcome = [kind |-> "none"]
    /\ log = << >>
    /\ nEval = 0
    /\ plugin = NoPlugin
    /\ lexer = NoLexer

\* what evaluate() leaves behind: the contexts, the arrays, the steps taken
\* and the result list or the exception
Ran(r) ==
    /\ scopes' = r.st.scopes
    /\ heap' = r.st.heap
    /\ log' = r.st.log
    /\ outcome' = IF r.ctl = "normal"
                  THEN [kind |-> "returned", results |-> r.val]
                  ELSE [kind |-> "threw", error |-> r.val]

\* new Evaluator(blockContext).evaluate(ast)
Evaluate(prog) ==
    /\ nEval < MaxEvals
    /\ outcome.kind = "none"
    /\ Ran(evaluate(prog, BlockCtx,
                    [scopes |-> scopes, heap |-> heap, log |-> << >>,
                     fuel |-> MaxFuel]))
    /\ program' = prog
    /\ nEval' = nEval + 1
    /\ UNCHANGED <<plugin, lexer>>

\* The next block of the document gets a fresh block context; the arrays
\* of the heap live on only when a variable of the global context holds one
\* (nothing else of the finished block is kept).
NewBlock ==
    /\ outcome.kind # "none"
    /\ scopes' = [scopes EXCEPT ![BlockCtx] = NewContext(None, @.globalContext)]
    /\ heap' = IF \E name \in DOMAIN scopes[GlobalCtx].variables :
                    scopes[GlobalCtx].variables[name].value.t = "object"
               THEN heap ELSE << >>
    /\ program' = NoProgram
    /\ outcome' = [kind |-> "none"]
    /\ log' = << >>
    /\ UNCHANGED <<nEval, plugin, lexer>>

(***************************************************************************)
(* Scoping: the programs of Spec.  One variable @x and one function @f,    *)
(* declared with and without the global flag, read, written and called at  *)
(* the top level and inside function bodies, in every order.               *)
(***************************************************************************)
Num(i) == NumberNode(NumOf(i), 1, 1)

X == IdentifierNode("@x", 1, 1)

Call(name) == FunctionCallNode(name, << >>, 1, 1)

Fn(name, body, isGlobal) == FunctionNode(name, << >>, << >>, body, isGlobal, 1, 1)

ScopeFragments ==
    {<<VariableNode("@x", Num(v), g, 1, 1)>> : v \in {1, 2}, g \in BOOLEAN}
    \cup {<<X>>}
    \* @w = () { @x = 3  @x }  @w()
    \cup {<<Fn("@w", <<VariableNode("@x", Num(3), FALSE, 1, 1), X>>, FALSE),
            Call("@w")>>}
    \* @n = () { @x = 4  @r() }  @n()
    \cup {<<Fn("@n", <<VariableNode("@x", Num(4), FALSE, 1, 1), Call("@r")>>, FALSE),
            Call("@n")>>}
    \* ~@f = () { 5 }   @f = () { 6 }   @f()
    \cup {<<Fn("@f", <<Num(5)>>, TRUE)>>, <<Fn("@f", <<Num(6)>>, FALSE)>>,
          <<Call("@f")>>}

\* the fragments that read inside a call:
\* @r = () { @x }  @r()      @c = () { @f() }  @c()
ScopeCalls ==
    {<<Fn("@r", <<X>>, FALSE), Call("@r")>>,
     <<Fn("@c", <<Call("@f")>>, FALSE), Call("@c")>>}

ScopePrograms ==
    {ProgramNode(a) : a \in ScopeFragments \cup ScopeCalls}
    \cup {ProgramNode(a \o b) : a \in ScopeFragments, b \in ScopeFragments \cup ScopeCalls}
    \cup {ProgramNode(a \o b \o c) :
            a \in ScopeFragments, b \in ScopeFragments, c \in ScopeCalls}

Next ==
    \/ \E prog \in ScopePrograms : Evaluate(prog)
    \/ NewBlock

Spec == Init /\ [][Next]_vars

\* the context an event speaks of is the context of a function call
InCall(e) == e.ctx > BlockCtx

\* C1: once the global scope binds a name, an unflagged assignment to that
\* name, at the top level or in a function call, replaces the global binding
\* and leaves the local table of the executing context as it was.
C1_UnflaggedAssignmentWritesGlobal ==
    \A i \in 1..Len(log) :
        (/\ log[i].op = "assign"
         /\ ~log[i].isGlobal
         /\ IsSome(log[i + 1].before[log[i].ctx].globalContext)
         /\ MapHas(log[i + 1].before[The(log[i + 1].before[log[i].ctx].globalContext)]
                      .variables, log[i].name))
        => LET w == log[i + 1]
               g == The(w.before[w.ctx].globalContext)
           IN  /\ w.op = "setVariable" /\ w.name = log[i].name
               /\ w.after[g].variables[w.name] = w.value
               /\ w.after[w.ctx].variables = w.before[w.ctx].variables

C1_Witness ==
    \E i \in 1..Len(log) :
        /\ log[i].op = "assign" /\ ~log[i].isGlobal /\ InCall(log[i])
        /\ MapHas(log[i + 1].before[GlobalCtx].variables, log[i].name)
        /\ log[i + 1].before[GlobalCtx].variables[log[i].name] # log[i + 1].value
        /\ log[i + 1].after[GlobalCtx].variables[log[i].name] = log[i + 1].value

RECURSIVE ParentChain(_, _)
ParentChain(sc, ctx) ==
    IF IsSome(sc[ctx].parent)
    THEN <<The(sc[ctx].parent)>> \o ParentChain(sc, The(sc[ctx].parent))
    ELSE << >>

\* the contexts in the order a lookup from ctx is to try them
LookupOrder(sc, ctx) ==
    <<ctx>> \o sc[ctx].globalContext \o ParentChain(sc, ctx)

\* the binding of name in the first context of order that has one
FirstBinding(sc, order, table, name) ==
    LET hits == {k \in 1..Len(order) : name \in DOMAIN sc[order[k]][table]}
        first == CHOOSE k \in hits : \A j \in hits : k <= j
    IN  IF hits = {} THEN None ELSE Some(sc[order[first]][table][name])

\* C2: a variable read and a function resolution from any context return the
\* binding found first in the order: own local table, attached global
\* context, parent chain (the caller, the caller of the caller, ...).
C2_LookupOrder ==
    \A i \in 1..Len(log) :
        /\ log[i].op = "getVariable"
            => log[i].result = FirstBinding(log[i].scopes,
                                            LookupOrder(log[i].scopes, log[i].ctx),
                                            "variables", log[i].name)
        /\ log[i].op = "getFunction"
            => log[i].result = FirstBinding(log[i].scopes,
                                            LookupOrder(log[i].scopes, log[i].ctx),
                                            "functions", log[i].name)

\* inside a function body the global binding wins over the caller local
C2_Witness ==
    \E i \in 1..Len(log) :
        /\ log[i].op = "getVariable" /\ InCall(log[i])
        /\ LET sc == log[i].scopes
               caller == The(sc[log[i].ctx].parent)
           IN  /\ ~MapHas(sc[log[i].ctx].variables, log[i].name)
               /\ MapHas(sc[GlobalCtx].variables, log[i].name)
               /\ MapHas(sc[caller].variables, log[i].name)
               /\ sc[caller].variables[log[i].name]
                    # sc[GlobalCtx].variables[log[i].name]
               /\ log[i].result = Some(sc[GlobalCtx].variables[log[i].name])

(***************************************************************************)
(* Return: the programs of SpecReturn.  A return with or without a value,  *)
(* directly in a function body or nested in if, for, while and block, in a *)
(* function with or without declared styles, and the same at the top       *)
(* level of the script.                                                    *)
(***************************************************************************)
Text(s) == StringNode(s, FALSE, 1, 1)

True == BooleanNode(TRUE, 1, 1)

I == IdentifierNode("@i", 1, 1)

\* for (@i = 0, @i < n, @i++) { body }
CountingFor(n, body) ==
    ForNode(VariableNode("@i", Num(0), FALSE, 1, 1),
            BinaryOpNode("<", I, Num(n), 1, 1),
            UnaryOpNode("++", I, FALSE, 1, 1),
            body, 1, 1)

ReturnedExpressions ==
    {None, Some(Text(<<"r">>)), Some(Num(7)),
     Some(BlockNode(<<Text(<<"r">>)>>, <<"blue">>, 1, 1))}

\* the statement lists that execute the return statement ret on their way
ReturningBodies(ret) ==
    {<<Text(<<"a">>), ret, Text(<<"z">>)>>,
     <<Text(<<"a">>), IfNode(True, <<ret>>, << >>, None, 1, 1), Text(<<"z">>)>>,
     <<CountingFor(2, <<Text(<<"a">>), ret>>), Text(<<"z">>)>>,
     <<WhileNode(True, <<Text(<<"a">>), ret>>, 1, 1), Text(<<"z">>)>>,
     <<BlockNode(<<Text(<<"a">>), ret>>, << >>, 1, 1), Text(<<"z">>)>>,
     <<IfNode(True, <<WhileNode(True, <<CountingFor(2, <<ret>>)>>, 1, 1)>>, << >>,
              None, 1, 1),
       Text(<<"z">>)>>}

ReturnStatements == {ReturnNode(v, 2, 3) : v \in ReturnedExpressions}

ReturnPrograms ==
    \* @f = ()[styles] { body }  @f()  "after"
    {ProgramNode(<<FunctionNode("@f", << >>, styles, body, FALSE, 1, 1),
                   Call("@f"), Text(<<"after">>)>>) :
        styles \in {<< >>, <<"red">>},
        body \in UNION {ReturningBodies(ret) : ret \in ReturnStatements}}
    \* @g = () { body }  @f = () { "a"  @g()  "z" }  @f()  "after"
    \cup {ProgramNode(<<Fn("@g", body, FALSE),
                        Fn("@f", <<Text(<<"a">>), Call("@g"), Text(<<"z">>)>>, FALSE),
                        Call("@f"), Text(<<"after">>)>>) :
            body \in UNION {ReturningBodies(ret) : ret \in ReturnStatements}}
    \* the return outside any function call
    \cup {ProgramNode(body) :
            body \in UNION {ReturningBodies(ret) : ret \in ReturnStatements}}

NextReturn ==
    \/ \E prog \in ReturnPrograms : Evaluate(prog)
    \/ NewBlock

SpecReturn == Init /\ [][NextReturn]_vars

\* the definition called by the call that event i of the log belongs to
CalledAt(i) ==
    LET calls == {j \in 1..i : log[j].op = "call" /\ log[j].ctx = log[i].ctx}
    IN  log[CHOOSE j \in calls : \A k \in calls : k <= j].funcDef

\* C3, as stated: a return inside a function body ends the innermost call
\* at once and that call yields exactly the returned value.
C3_CallYieldsExactlyReturnedValue ==
    \A i \in 1..Len(log) :
        (log[i].op = "return" /\ InCall(log[i]) /\ IsSome(log[i].value))
        => /\ i < Len(log)
           /\ log[i + 1].op = "exit" /\ log[i + 1].ctx = log[i].ctx
           /\ log[i + 1].ctl = "normal"
           /\ log[i + 1].val = The(log[i].value)

\* C3: a return inside a function body, at any nesting depth, is followed
\* by no further statement, iteration or update of that body: the innermost
\* call ends at once and normally, and yields the returned value with its
\* styles replaced by the declared styles of the function when it has any
\* (the empty markdown string for a return without a value); the caller
\* goes on after the call.
C3_ReturnEndsInnermostCall ==
    \A i \in 1..Len(log) :
        (log[i].op = "return" /\ InCall(log[i]))
        => /\ i < Len(log)
           /\ log[i + 1].op = "exit" /\ log[i + 1].ctx = log[i].ctx
           /\ log[i + 1].ctl = "normal"
           /\ log[i + 1].val =
                IF IsSome(log[i].value)
                THEN [The(log[i].value) EXCEPT
                        !.styles = IF Len(CalledAt(i).styles) > 0
                                   THEN Some(CalledAt(i).styles) ELSE @]
                ELSE EvaluatedValue(Str(<< >>), TRUE)

\* a styled function returned a value of other styles from inside a loop,
\* earlier statements of its body had produced values, and the script went
\* on to its next statement
C3_Witness ==
    \E i \in 1..Len(log) :
        /\ log[i].op = "return" /\ InCall(log[i]) /\ IsSome(log[i].value)
        /\ Len(CalledAt(i).styles) > 0
        /\ The(log[i].value).styles # Some(CalledAt(i).styles)
        /\ \E j \in 1..(i - 1) : log[j].op = "for.body" /\ log[j].ctx = log[i].ctx
        /\ \E j \in (i + 1)..Len(log) : log[j].op = "statement" /\ log[j].ctx = BlockCtx
        /\ outcome.kind = "returned"

\* C4: a return executed outside any function call makes evaluate() fail
\* with a runtime error that carries a 1-based line and column.
C4_TopLevelReturnIsRuntimeError ==
    \A i \in 1..Len(log) :
        (log[i].op = "return" /\ ~InCall(log[i]))
        => /\ outcome.kind = "threw"
           /\ outcome.error.name = "RuntimeError"
           /\ outcome.error.line >= 1
           /\ outcome.error.column >= 1

(***************************************************************************)
(* Arrays: the programs of SpecArray.  Arrays of length 0 to MaxLen, read  *)
(* and assigned at every index from -1 to MaxLen + 1, through the name     *)
(* they were created under, through a second name assigned from the first  *)
(* and through a parameter, with and without older bindings of the second  *)
(* name.                                                                   *)
(***************************************************************************)
MaxLen == 2

RECURSIVE Numbers(_, _)
\* the literals lo, lo + 1, ..., hi
Numbers(lo, hi) == IF lo > hi THEN << >> ELSE <<Num(lo)>> \o Numbers(lo + 1, hi)

\* [1, 2, ..., n]
ArrayOf(n) == ArrayNode(Numbers(1, n), 1, 1)

\* the expression the parser makes of the integer i
Literal(i) == IF i < 0 THEN UnaryOpNode("-", Num(-i), TRUE, 1, 1) ELSE Num(i)

A == IdentifierNode("@a", 1, 1)

B == IdentifierNode("@b", 1, 1)

Let(name, value) == VariableNode(name, value, FALSE, 1, 1)

Global(name, value) == VariableNode(name, value, TRUE, 1, 1)

\* array[i]
At(array, i) == ArrayIndexNode(array, Literal(i), 2, 5)

\* array[i] = v
SetAt(array, i, v) == ArrayIndexAssignmentNode(array, Literal(i), Num(v), 2, 5)

Indices == (-1)..(MaxLen + 1)

IndexPrograms ==
    \* @a = [1..n]  @a[i]
    {ProgramNode(<<Let("@a", ArrayOf(n)), At(A, i)>>) : n \in 0..MaxLen, i \in Indices}
    \* @a = [1..n]  @a[i] = 9  @a[j] = 8  @a[0]
    \cup {ProgramNode(<<Let("@a", ArrayOf(n)), SetAt(A, i, 9), SetAt(A, j, 8), At(A, 0)>>) :
            n \in 0..MaxLen, i \in Indices, j \in 0..1}
    \* @a = [1..n]  @a[i] = 9
    \cup {ProgramNode(<<Let("@a", ArrayOf(n)), SetAt(A, i, 9)>>) :
            n \in 0..MaxLen, i \in Indices}

\* what a script may have done to @b before it makes @b a name of the array
OlderBindings ==
    {<< >>,
     <<Let("@b", ArrayOf(1))>>,
     <<Global("@b", ArrayOf(1))>>,
     <<Let("@b", ArrayOf(1)), Global("@b", ArrayOf(2))>>}

AliasPrograms ==
    \* @a = [1, 2]  @b = @a  @b[k] = 9  @a[k]       and the write through @a
    {ProgramNode(older \o <<Let("@a", ArrayOf(2)), Let("@b", A), SetAt(w, k, 9),
                            At(A, k), At(B, k)>>) :
        older \in OlderBindings, w \in {A, B}, k \in 0..1}
    \* @a = [1, 2]  @b = @a  @b = [1]  @b[0] = 9  @a[0]
    \cup {ProgramNode(older \o <<Let("@a", ArrayOf(2)), Let("@b", A),
                                 Let("@b", ArrayOf(1)), SetAt(B, 0, 9), At(A, 0)>>) :
            older \in OlderBindings}
    \* @a = [1, 2]  @set = (@p) { @p[k] = 9  @p[k] }  @set(@a)  @a[k]
    \cup {ProgramNode(older \o
                      <<Let("@a", ArrayOf(2)),
                        FunctionNode("@set", <<"@p">>, << >>,
                                     <<SetAt(IdentifierNode("@p", 1, 1), k, 9),
                                       At(IdentifierNode("@p", 1, 1), k)>>,
                                     FALSE, 1, 1),
                        FunctionCallNode("@set", <<A>>, 1, 1),
                        At(A, k)>>) :
            older \in OlderBindings, k \in 0..2}

\* one block: nothing but the global context outlives a block, and what
\* these programs need of it they declare themselves
NextArray == \E prog \in IndexPrograms \cup AliasPrograms : Evaluate(prog)

SpecArray == Init /\ [][NextArray]_vars

\* C5: reading arr[i] and assigning arr[i] = v succeed iff 0 <= i < n, n the
\* current length of the array; otherwise (i = n, a negative i, i = 0 on an
\* empty array) a runtime error is raised and ends the evaluation; and an
\* index assignment changes the length of no array.
C5_IndexInBoundsOrRuntimeError ==
    \A i \in 1..Len(log) :
        /\ log[i].op = "index"
            => /\ (log[i].error = None)
                    <=> (0 <= log[i].index /\ log[i].index < log[i].length)
               /\ log[i].error # None
                    => /\ The(log[i].error).name = "RuntimeError"
                       /\ outcome = [kind |-> "threw", error |-> The(log[i].error)]
               /\ log[i].error = None /\ log[i].write
                    => /\ i < Len(log)
                       /\ log[i + 1].op = "setIndex"
                       /\ log[i + 1].after[log[i].ref][log[i].index + 1]
                            = log[i + 1].value
        /\ log[i].op = "setIndex"
            => /\ DOMAIN log[i].after = DOMAIN log[i].before
               /\ \A ref \in DOMAIN log[i].before :
                    Len(log[i].after[ref]) = Len(log[i].before[ref])

\* an assignment at the index that equals the length of a non-empty array
\* was refused, after an assignment inside the bounds went through
C5_Witness ==
    \E i \in 1..Len(log) :
        /\ log[i].op = "index" /\ log[i].write
        /\ log[i].index = log[i].length /\ log[i].length > 0
        /\ log[i].error # None
        /\ outcome.kind = "threw"
        /\ \E j \in 1..(i - 1) : log[j].op = "setIndex" /\ log[j].ref = log[i].ref

\* the call of context ctx is not left, and none of names is assigned in
\* ctx, between the events i and j of the log
Undisturbed(i, j, ctx, names) ==
    \A k \in (i + 1)..(j - 1) :
        /\ ~(log[k].op = "exit" /\ log[k].ctx = ctx)
        /\ ~(log[k].op = "assign" /\ log[k].ctx = ctx /\ log[k].name \in names)

\* reading index k of the array that name denotes in ctx yields v
ReadsAs(sc, h, ctx, name, k, v) ==
    LET bound == getVariable(sc, ctx, name)
    IN  /\ bound # None
        /\ The(bound).value.t = "object"
        /\ k + 1 \in DOMAIN h[The(bound).value.ref]
        /\ h[The(bound).value.ref][k + 1] = v

\* C6: arrays are shared by reference.  After b is assigned from an array
\* variable a, a successful index assignment through either name is seen by
\* a read of that index through both names; an index assignment through a
\* parameter lands in the array the caller passed; and an assignment to one
\* name leaves every other binding, and so the array of the other names, as
\* it was.
C6_ArraysSharedByReference ==
    /\ \A i \in 1..Len(log) : \A j \in (i + 1)..Len(log) :
        LET names == {log[i].name, log[i].source.name} IN
        (/\ log[i].op = "assign" /\ log[i].source.type = "Identifier"
         /\ log[i + 1].op = "setVariable" /\ log[i + 1].value.value.t = "object"
         /\ log[j].op = "setIndex" /\ log[j].ctx = log[i].ctx /\ log[j].name \in names
         /\ Undisturbed(i, j, log[i].ctx, names))
        => \A name \in names :
              ReadsAs(log[j].scopes, log[j].after, log[j].ctx, name,
                      log[j].index, log[j].value)
    /\ \A i \in 1..Len(log) : \A j \in (i + 1)..Len(log) :
        (/\ log[i].op = "call"
         /\ log[j].op = "setIndex" /\ log[j].ctx = log[i].ctx
         /\ Undisturbed(i, j, log[i].ctx, {log[j].name}))
        => \A k \in 1..Len(log[i].funcDef.params) :
              (/\ log[i].funcDef.params[k] = log[j].name
               /\ k <= Len(log[i].args)
               /\ log[i].args[k].value.t = "object")
              => log[j].ref = log[i].args[k].value.ref
    /\ \A i \in 1..Len(log) :
        log[i].op = "setVariable"
        => \A c \in DOMAIN log[i].before :
              \A m \in DOMAIN log[i].before[c].variables :
                 m # log[i].name
                 => log[i].after[c].variables[m] = log[i].before[c].variables[m]

(***************************************************************************)
(* For: the programs of SpecFor.  The counting loop                        *)
(*     for (@i = 0, @i < n, @i++) { body }                                 *)
(* for n from -1 to MaxCount with bodies that do not write @i, at the top  *)
(* level and in a function body, after the script has or has not bound @i. *)
(***************************************************************************)
MaxCount == 3

Counts == (-1)..MaxCount

\* for (@i = 0, @i < n, @i++) { body }
ForLoop(n, body) ==
    ForNode(Let("@i", Num(0)),
            BinaryOpNode("<", I, Literal(n), 3, 1),
            UnaryOpNode("++", I, FALSE, 3, 1),
            body, 3, 1)

ForBodies == {<< >>, <<I>>, <<Text(<<"x">>), I>>}

\* what a script may have done to @i before the loop
OlderCounters ==
    {<< >>,
     <<Let("@i", Num(5))>>,
     <<Global("@i", Num(5))>>,
     <<Let("@i", Num(1)), Global("@i", Num(5))>>,
     <<Let("@i", Num(7)), Global("@i", Num(5))>>}

ForProgram(older, n, body, inCall) ==
    IF inCall
    THEN ProgramNode(<<Fn("@loop", older \o <<ForLoop(n, body)>>, FALSE), Call("@loop")>>)
    ELSE ProgramNode(older \o <<ForLoop(n, body)>>)

ForPrograms ==
    {ForProgram(older, n, body, inCall) :
        older \in OlderCounters, n \in Counts, body \in ForBodies, inCall \in BOOLEAN}

NextFor ==
    \/ \E prog \in ForPrograms : Evaluate(prog)
    \/ NewBlock

SpecFor == Init /\ [][NextFor]_vars

\* the n of the loop of prog
CountOf(prog) ==
    CHOOSE n \in Counts :
        \E older \in OlderCounters, body \in ForBodies, inCall \in BOOLEAN :
            prog = ForProgram(older, n, body, inCall)

\* the steps of the for statement that the log records, in order
ForSteps ==
    LET steps == SelectSeq(log, LAMBDA e : e.op \in {"for.init", "for.condition",
                                                     "for.body", "for.update"})
    IN  [k \in 1..Len(steps) |-> steps[k].op]

RECURSIVE Iterations(_)
\* n times: condition, body, update
Iterations(n) ==
    IF n <= 0 THEN << >>
    ELSE <<"for.condition", "for.body", "for.update">> \o Iterations(n - 1)

\* C7: the for statement evaluates its init once, checks the condition
\* before every iteration, the first included, and evaluates the update
\* after each run of the body; with init @i = 0, condition @i < n, update
\* @i++ and a body that does not write @i, the body runs exactly n times
\* (no run and no update when n <= 0) and the loop terminates.
C7_CountingLoopRunsNTimes ==
    (program \in ForPrograms /\ outcome.kind # "none")
    => /\ ForSteps = <<"for.init">> \o Iterations(CountOf(program))
                        \o <<"for.condition">>
       /\ outcome.kind = "returned"

(***************************************************************************)
(* Fall-through: the programs of SpecFold.  A function, with or without    *)
(* declared styles, whose body is any list of up to MaxBody statements     *)
(* that produce a value (markdown or not, styled or not) or none, and a    *)
(* function whose body calls another one.                                  *)
(***************************************************************************)
MaxBody == 3

False == BooleanNode(FALSE, 1, 1)

FoldStatements ==
    {Text(<<"a">>),
     StringNode(<<"*", "b", "*">>, TRUE, 1, 1),
     Num(7),
     False,
     BlockNode(<<Text(<<"c">>)>>, <<"blue">>, 1, 1),
     Let("@v", Num(1)),
     IfNode(False, <<Text(<<"d">>)>>, << >>, None, 1, 1)}

RECURSIVE StatementLists(_)
\* the lists of at most n of the statements
StatementLists(n) ==
    IF n = 0 THEN {<< >>}
    ELSE LET shorter == StatementLists(n - 1)
         IN  shorter \cup {Append(body, s) : body \in shorter, s \in FoldStatements}

FoldStyles == {<< >>, <<"red">>}

FoldPrograms ==
    \* @f = ()[styles] { body }  @f()
    {ProgramNode(<<FunctionNode("@f", << >>, styles, body, FALSE, 1, 1), Call("@f")>>) :
        styles \in FoldStyles, body \in StatementLists(MaxBody)}
    \* @g = ()[styles] { body }  @f = () { @g()  "a" }  @f()
    \cup {ProgramNode(<<FunctionNode("@g", << >>, styles, body, FALSE, 1, 1),
                        Fn("@f", <<Call("@g"), Text(<<"a">>)>>, FALSE),
                        Call("@f")>>) :
            styles \in FoldStyles, body \in StatementLists(1)}

NextFold ==
    \/ \E prog \in FoldPrograms : Evaluate(prog)
    \/ NewBlock

SpecFold == Init /\ [][NextFold]_vars

RECURSIVE SpaceJoined(_, _)
\* the texts of the values, a single space between neighbours
SpaceJoined(values, h) ==
    IF Len(values) = 1 THEN JsToString(values[1].value, h)
    ELSE JsToString(values[1].value, h) \o <<" ">> \o SpaceJoined(Tail(values), h)

\* event i of the log has the n values of a body that ran to its end, and
\* the call returns next
FellThrough(i) ==
    /\ log[i].op = "results"
    /\ i < Len(log)
    /\ log[i + 1].op = "exit" /\ log[i + 1].ctx = log[i].ctx
    /\ log[i + 1].ctl = "normal"

\* what the claim says of the calls that produced two values or more, and
\* of those that produced none
JoinedOrEmpty(i) ==
    LET values == log[i].values
        val == log[i + 1].val
    IN  /\ Len(values) >= 2
            => /\ val.value = Str(SpaceJoined(values, log[i].heap))
               /\ val.isMarkdown = (\E k \in 1..Len(values) : values[k].isMarkdown)
               /\ val.children = Some(values)
        /\ Len(values) = 0
            => val = [value |-> Str(<< >>), isMarkdown |-> TRUE, styles |-> None,
                      children |-> None]

\* C8, as stated: a call whose body executes no return and produces n
\* values returns their space-joined text with the OR of their markdown
\* flags and the values as children for n >= 2, that value itself for
\* n = 1, an empty markdown string for n = 0.
C8_SingleValueReturnedItself ==
    \A i \in 1..Len(log) :
        log[i].op = "results"
        => /\ FellThrough(i)
           /\ JoinedOrEmpty(i)
           /\ Len(log[i].values) = 1 => log[i + 1].val = log[i].values[1]

\* C8: a call whose body executes no return and produces n values returns,
\* for n >= 2, their texts joined by single spaces in production order, the
\* OR of their markdown flags and exactly those values as children; for
\* n = 1, that value with its styles replaced by the declared styles of the
\* function when it has any; for n = 0, an empty markdown string.
C8_FallThroughFold ==
    \A i \in 1..Len(log) :
        log[i].op = "results"
        => /\ FellThrough(i)
           /\ JoinedOrEmpty(i)
           /\ Len(log[i].values) = 1
                => log[i + 1].val =
                     [log[i].values[1] EXCEPT
                        !.styles = IF Len(log[i].funcDef.styles) > 0
                                   THEN Some(log[i].funcDef.styles) ELSE @]

\* a styled function handed on its single value under its own styles, and
\* its caller joined that value and a second one of another markdown flag
C8_Witness ==
    \E i \in 1..Len(log) : \E j \in (i + 1)..Len(log) :
        /\ log[i].op = "results" /\ Len(log[i].values) = 1
        /\ Len(log[i].funcDef.styles) > 0
        /\ log[i + 1].val # log[i].values[1]
        /\ log[j].op = "results" /\ Len(log[j].values) = 2
        /\ log[j].values[1] = log[i + 1].val
        /\ log[j].values[1].isMarkdown # log[j].values[2].isMarkdown
        /\ log[j + 1].op = "exit" /\ log[j + 1].val.children = Some(log[j].values)

(***************************************************************************)
(* Arithmetic: the programs of SpecArith.  One binary operation on two     *)
(* literal operands: numbers (zero, positive, negative, fractional),       *)
(* booleans, strings that parse to zero, to another number or to none,     *)
(* with either markdown flag, and an array.                                *)
(***************************************************************************)
OperandTexts ==
    {<<"0">>, <<"-", "0">>, <<"0", ".", "0">>, <<" ", "0">>, <<"0", "x", "1">>,
     <<"0", "a">>, <<"2">>, <<"1", ".", "5">>, <<"-", "4">>, <<"2", "p", "x">>,
     <<"a">>, << >>}

Operands ==
    {Num(0), Num(1), Num(3), Literal(-2), NumberNode(MkNum(5, 2), 1, 1),
     True, False, ArrayOf(1)}
    \cup {StringNode(s, md, 1, 1) : s \in OperandTexts, md \in BOOLEAN}

Operators == {"+", "-", "*", "/", "%"}

ArithPrograms ==
    {ProgramNode(<<BinaryOpNode(operator, a, b, 4, 2)>>) :
        operator \in Operators, a \in Operands, b \in Operands}

NextArith ==
    \/ \E prog \in ArithPrograms : Evaluate(prog)
    \/ NewBlock

SpecArith == Init /\ [][NextArith]_vars

\* the number a value stands for in arithmetic, None when it stands for none
Coerced(v) ==
    CASE v.t = "number" -> Some(v)
      [] v.t = "boolean" -> Some(IF v.b THEN NumOf(1) ELSE NumOf(0))
      [] v.t = "string" -> ParseFloat(v.s)
      [] OTHER -> None

\* C9: a / b and a % b with a b that coerces to 0 (the number 0, false, a
\* string parsing to 0) raise a runtime error and yield no value; with a b
\* that coerces to another number and an a that coerces to a number they
\* yield a number.
C9_ZeroDivisorRaises ==
    \A i \in 1..Len(log) :
        (log[i].op = "binary" /\ log[i].operator \in {"/", "%"})
        => LET a == Coerced(log[i].left.value)
               b == Coerced(log[i].right.value)
           IN  /\ b = Some(NumOf(0))
                    => /\ log[i].ctl = "throw"
                       /\ log[i].val.name = "RuntimeError"
                       /\ outcome = [kind |-> "threw", error |-> log[i].val]
               /\ (b # None /\ b # Some(NumOf(0)) /\ a # None)
                    => /\ log[i].ctl = "normal"
                       /\ log[i].val.value.t = "number"
                       /\ log[i].val.value.d > 0
                       /\ outcome = [kind |-> "returned", results |-> <<log[i].val>>]

\* a number was divided by a string that only begins like a zero
C9_Witness ==
    \E i \in 1..Len(log) :
        /\ log[i].op = "binary" /\ log[i].operator = "/"
        /\ log[i].left.value = NumOf(3)
        /\ log[i].right.value = Str(<<"0", "a">>)
        /\ log[i].ctl = "throw"
        /\ outcome.kind = "threw" /\ outcome.error.line = 4

\* a value is a number or a string
Plain(v) == v.t \in {"number", "string"}

\* C10: on numbers and strings, a + b is the string form of a followed by
\* the string form of b when at least one of them is a string, with the OR
\* of the markdown flags, and the numeric sum with the markdown flag set
\* when both are numbers; a string operand is never coerced to a number.
C10_PlusConcatenatesOrAdds ==
    \A i \in 1..Len(log) :
        (/\ log[i].op = "binary" /\ log[i].operator = "+"
         /\ Plain(log[i].left.value) /\ Plain(log[i].right.value))
        => LET a == log[i].left
               b == log[i].right
               h == << >>
           IN  /\ log[i].ctl = "normal"
               /\ (a.value.t = "string" \/ b.value.t = "string")
                    => /\ log[i].val.value
                            = Str(JsToString(a.value, h) \o JsToString(b.value, h))
                       /\ log[i].val.isMarkdown = (a.isMarkdown \/ b.isMarkdown)
               /\ (a.value.t = "number" /\ b.value.t = "number")
                    => /\ log[i].val.value = NumAdd(a.value, b.value)
                       /\ log[i].val.isMarkdown

\* 1 + "2" made the string 12, not the number 3
C10_Witness ==
    \E i \in 1..Len(log) :
        /\ log[i].op = "binary" /\ log[i].operator = "+"
        /\ log[i].left.value = NumOf(1)
        /\ log[i].right = EvaluatedValue(Str(<<"2">>), FALSE)
        /\ log[i].val = EvaluatedValue(Str(<<"1", "2">>), TRUE)
        /\ outcome.kind = "returned"

(***************************************************************************)
(* Errors: the programs of SpecAbort.  Up to MaxStatements top-level       *)
(* statements, the k-th on line k; some bind the marker of their line,     *)
(* some raise, in the statement itself, inside an argument list or inside  *)
(* the body of a called function.                                          *)
(***************************************************************************)
MaxStatements == 3

MarkName(k) == <<"@s1", "@s2", "@s3", "@s4">>[k]

DivisionByZero(k) == BinaryOpNode("/", NumberNode(NumOf(1), k, 1),
                                  NumberNode(NumOf(0), k, 5), k, 3)

AbortStatements(k) ==
    {\* @sk = k
     VariableNode(MarkName(k), NumberNode(NumOf(k), k, 7), FALSE, k, 1),
     \* "t"
     StringNode(<<"t">>, FALSE, k, 1),
     \* 1 / 0
     DivisionByZero(k),
     \* @sk = 1 / 0
     VariableNode(MarkName(k), DivisionByZero(k), FALSE, k, 1),
     \* @u
     IdentifierNode("@u", k, 1),
     \* @b = () { 1 / 0 }
     FunctionNode("@b", << >>, << >>, <<DivisionByZero(k)>>, FALSE, k, 1),
     \* @b(@s1) and @b(1 / 0, @u)
     FunctionCallNode("@b", <<IdentifierNode(MarkName(1), k, 4)>>, k, 1),
     FunctionCallNode("@b", <<DivisionByZero(k), IdentifierNode("@u", k, 9)>>, k, 1)}

RECURSIVE AbortLists(_)
AbortLists(n) ==
    IF n = 0 THEN {<< >>}
    ELSE {l \o <<a>> : l \in AbortLists(n - 1), a \in AbortStatements(n)}

AbortPrograms == {ProgramNode(l) : l \in UNION {AbortLists(n) : n \in 1..MaxStatements}}

NextAbort ==
    \/ \E prog \in AbortPrograms : Evaluate(prog)
    \/ NewBlock

SpecAbort == Init /\ [][NextAbort]_vars

\* the top-level statements that were started, in the order of their start
StartedAtTopLevel ==
    SelectSeq(log, LAMBDA e : e.op = "statement" /\ e.ctx = BlockCtx)

\* the step e is the one that raised err
Raised(e, err) ==
    \/ e.op \in {"binary", "exit"} /\ e.ctl = "throw" /\ e.val = err
    \/ e.op = "getVariable" /\ e.result = None /\ err.message = "Undefined variable"
    \/ e.op = "getFunction" /\ e.result = None /\ err.message = "Undefined function"

\* C11: when the k-th top-level statement raises an error, evaluate() raises
\* that very error and returns no result list; statements 1..k were started
\* in order, the step that raised is the last step taken, and no statement
\* after the k-th has run (its marker is unbound).
C11_ErrorAbortsEvaluate ==
    (outcome.kind = "threw" /\ outcome.error.name = "RuntimeError") =>
        LET k == Len(StartedAtTopLevel)
        IN  /\ k \in 1..Len(program.statements)
            /\ \A j \in 1..k : StartedAtTopLevel[j].line = j
            /\ DOMAIN outcome = {"kind", "error"}
            /\ Raised(log[Len(log)], outcome.error)
            /\ \A j \in (k + 1)..Len(program.statements) :
                  ~MapHas(scopes[BlockCtx].variables, MarkName(j))

\* the second statement raised in the argument list of its call, after the
\* first declared the function and before the third could bind its marker
C11_Witness ==
    /\ outcome.kind = "threw"
    /\ outcome.error.name = "RuntimeError"
    /\ Len(program.statements) = 3
    /\ Len(StartedAtTopLevel) = 2
    /\ program.statements[1].type = "Function"
    /\ program.statements[2].type = "FunctionCall"
    /\ program.statements[3].type = "Variable"
    /\ program.statements[3].value.type = "Number"
    /\ log[Len(log)].op = "binary"

(***************************************************************************)
(* class MDLXPlugin (src/main.ts).  A global ExecutionContext is an index  *)
(* into scopes, a processing (the promise currentProcessing) an index into *)
(* plugin.processings, an element the number of its block in the document. *)
(* A processing is "awaiting" its predecessor, "rendering" (lexed, parsed  *)
(* and evaluated, awaiting renderer.render) or "settled".                  *)
(***************************************************************************)
\* processMDLXBlock calls in one behaviour
MaxCalls == 3
\* file-open events in one behaviour
MaxOpens == 2

Paths == {"a.md", "b.md"}

Elements == {1, 2}

\* the lx blocks of the documents, parsed:
\*   a.md:  ~@x = 1      @x
\*   b.md:  @x           ~@x = 2
Document(path) ==
    IF path = "a.md"
    THEN <<ProgramNode(<<VariableNode("@x", NumberNode(NumOf(1), 1, 7), TRUE, 1, 1)>>),
           ProgramNode(<<IdentifierNode("@x", 1, 1)>>)>>
    ELSE <<ProgramNode(<<IdentifierNode("@x", 1, 1)>>),
           ProgramNode(<<VariableNode("@x", NumberNode(NumOf(2), 1, 7), TRUE, 1, 1)>>)>>

MapDelete(m, k) == [x \in (DOMAIN m) \ {k} |-> m[x]]

\* how often the document's contexts and queue were dropped (a re-render or
\* the deletion of the file)
Resets(pl, path) == IF MapHas(pl.resets, path) THEN pl.resets[path] ELSE 0

Reset(pl, path) ==
    [pl EXCEPT !.globalContexts = MapDelete(@, path),
               !.processingQueues = MapDelete(@, path),
               !.resets = MapSet(@, path, Resets(pl, path) + 1)]

Blocks(pl, path) ==
    IF MapHas(pl.processedBlocks, path) THEN pl.processedBlocks[path] ELSE {}

\* processMDLXBlock up to previousProcessing
Marked(pl, el, path) ==
    IF el \in Blocks(pl, path)
    THEN [Reset(pl, path) EXCEPT !.processedBlocks = MapSet(@, path, {el})]
    ELSE [pl EXCEPT !.processedBlocks = MapSet(@, path, Blocks(pl, path) \cup {el})]

\* currentProcessing is created behind previousProcessing and becomes the
\* tail of the document's queue
\* (enqueued: how often the document had been reset when it was created;
\* epoch: how often when its body evaluated the block)
Queued(pl, el, path) ==
    [pl EXCEPT
        !.processings =
            Append(@, [sourcePath |-> path, el |-> el,
                       previous |-> MapGet(pl.processingQueues, path),
                       pc |-> "awaiting", global |-> None, epoch |-> 0,
                       enqueued |-> Resets(pl, path)]),
        !.processingQueues = MapSet(@, path, Len(pl.processings) + 1)]

\* the body of currentProcessing has run to its await of renderer.render,
\* or to its end when the evaluation threw (renderError does not wait)
Evaluated(pl, id, globalContext, r) ==
    /\ Ran(r)
    /\ program' = Document(pl.processings[id].sourcePath)[pl.processings[id].el]
    /\ plugin' = [pl EXCEPT
                    !.globalContexts =
                        MapSet(@, pl.processings[id].sourcePath, globalContext),
                    !.processings[id] =
                        [@ EXCEPT !.pc = IF r.ctl = "normal" THEN "rendering"
                                         ELSE "settled",
                                  !.global = Some(globalContext),
                                  !.epoch = Resets(pl, pl.processings[id].sourcePath)]]

\* const blockContext = new ExecutionContext();
\* blockContext.setGlobalContext(globalContext); ... evaluator.evaluate(ast)
EvaluatedIn(pl, id, globalContext, sc) ==
    Evaluated(pl, id, globalContext,
              evaluate(Document(pl.processings[id].sourcePath)[pl.processings[id].el],
                       Len(sc) + 1,
                       [scopes |-> setGlobalContext(Append(sc, NewContext(None, None)),
                                                    Len(sc) + 1, globalContext),
                        heap |-> heap, log |-> << >>, fuel |-> MaxFuel]))

\* the body of currentProcessing from el.addClass on: the document's global
\* context, made now if the plugin holds none
Begun(pl, id) ==
    IF MapHas(pl.globalContexts, pl.processings[id].sourcePath)
    THEN EvaluatedIn(pl, id, pl.globalContexts[pl.processings[id].sourcePath], scopes)
    ELSE EvaluatedIn(pl, id, Len(scopes) + 1, Append(scopes, NewContext(None, None)))

\* one call of processMDLXBlock, to the first await of its body: of the
\* predecessor if there is one, of the rendering otherwise
Called(pl) ==
    IF pl.processings[Len(pl.processings)].previous = None
    THEN Begun(pl, Len(pl.processings))
    ELSE plugin' = pl /\ UNCHANGED <<scopes, heap, program, outcome, log>>

processMDLXBlock(el, path) ==
    /\ Len(plugin.processings) < MaxCalls
    /\ Called(Queued(Marked(plugin, el, path), el, path))
    /\ UNCHANGED <<nEval, lexer>>

\* await previousProcessing.catch(() => {}) returns
Resume(id) ==
    /\ plugin.processings[id].pc = "awaiting"
    /\ plugin.processings[id].previous # None
    /\ plugin.processings[The(plugin.processings[id].previous)].pc = "settled"
    /\ Begun(plugin, id)
    /\ UNCHANGED <<nEval, lexer>>

\* await this.renderer.render(...) returns or throws
Rendered(id) ==
    /\ plugin.processings[id].pc = "rendering"
    /\ plugin' = [plugin EXCEPT !.processings[id].pc = "settled"]
    /\ UNCHANGED <<scopes, heap, program, outcome, log, nEval, lexer>>

InitPlugin ==
    /\ scopes = << >>
    /\ heap = << >>
    /\ program = NoProgram
    /\ outcome = [kind |-> "none"]
    /\ log = << >>
    /\ nEval = 0
    /\ plugin = NoPlugin
    /\ lexer = NoLexer

NextQueue ==
    \/ \E el \in Elements, path \in Paths : processMDLXBlock(el, path)
    \/ \E id \in 1..Len(plugin.processings) : Resume(id)
    \/ \E id \in 1..Len(plugin.processings) : Rendered(id)

SpecQueue == InitPlugin /\ [][NextQueue]_vars

\* the body of the processing has started: it is past its lexing, parsing
\* and evaluation
HasStarted(p) == p.pc \in {"rendering", "settled"}

\* C12: the processings of one document run one after another in call
\* order: whenever a processing has started, every processing enqueued
\* before it for the same path has settled.
C12_ProcessingsRunInCallOrder ==
    \A id \in 1..Len(plugin.processings) :
        \A earlier \in 1..(id - 1) :
            (/\ plugin.processings[earlier].sourcePath = plugin.processings[id].sourcePath
             /\ HasStarted(plugin.processings[id]))
            => plugin.processings[earlier].pc = "settled"

(***************************************************************************)
(* The other events the plugin listens to: file-open (preProcessFile) and  *)
(* the deletion of a file.                                                 *)
(***************************************************************************)
RECURSIVE preProcessStatements(_, _, _)
\* for (const statement of ast.statements): the global variable and function
\* declarations are evaluated on the global context itself
preProcessStatements(statements, globalContext, st) ==
    LET next(r) ==
            IF Failed(r) THEN r
            ELSE preProcessStatements(Tail(statements), globalContext, r.st)
    IN  IF Len(statements) = 0 THEN Normal(st, None)
        ELSE IF /\ statements[1].type \in {"Variable", "Function"}
                /\ statements[1].isGlobal
        THEN next(evaluateStatement(statements[1], globalContext, st))
        ELSE preProcessStatements(Tail(statements), globalContext, st)

RECURSIVE preProcessBlocks(_, _, _)
\* for (const match of matches): an error ends the block it is raised in
\* (console.warn) and the next block is taken up
preProcessBlocks(blocks, globalContext, st) ==
    IF Len(blocks) = 0 THEN st
    ELSE preProcessBlocks(Tail(blocks), globalContext,
                          preProcessStatements(blocks[1].statements,
                                               globalContext, st).st)

\* what preProcessFile leaves behind
PreProcessed(st) ==
    /\ scopes' = st.scopes
    /\ heap' = st.heap

\* file-open: preProcessFile up to its await of vault.read; it returns at
\* once when the document has a global context
FileOpen(path) ==
    /\ plugin.opened < MaxOpens
    /\ plugin' = [plugin EXCEPT
                    !.opened = @ + 1,
                    !.reading = IF MapHas(plugin.globalContexts, path) THEN @
                                ELSE @ \cup {path}]
    /\ UNCHANGED <<scopes, heap, program, outcome, log, nEval, lexer>>

\* vault.read returns: preProcessFile makes a global context, stores it
\* under the path and evaluates the global declarations of every block
Read(path) ==
    /\ path \in plugin.reading
    /\ plugin' = [plugin EXCEPT !.reading = @ \ {path},
                                !.globalContexts = MapSet(@, path, Len(scopes) + 1)]
    /\ PreProcessed(preProcessBlocks(Document(path), Len(scopes) + 1,
                                     [scopes |-> Append(scopes, NewContext(None, None)),
                                      heap |-> heap, log |-> << >>,
                                      fuel |-> MaxFuel]))
    /\ UNCHANGED <<program, outcome, log, nEval, lexer>>

\* vault.on("delete")
Delete(path) ==
    /\ \/ MapHas(plugin.globalContexts, path)
       \/ MapHas(plugin.processingQueues, path)
       \/ MapHas(plugin.processedBlocks, path)
    /\ plugin' = [Reset(plugin, path) EXCEPT !.processedBlocks = MapDelete(@, path)]
    /\ UNCHANGED <<scopes, heap, program, outcome, log, nEval, lexer>>

NextPlugin ==
    \/ \E el \in Elements, path \in Paths : processMDLXBlock(el, path)
    \/ \E id \in 1..Len(plugin.processings) : Resume(id)
    \/ \E id \in 1..Len(plugin.processings) : Rendered(id)
    \/ \E path \in Paths : FileOpen(path)
    \/ \E path \in Paths : Read(path)
    \/ \E path \in Paths : Delete(path)

SpecPlugin == InitPlugin /\ [][NextPlugin]_vars

\* the processings that have evaluated their block
StartedProcessings ==
    {id \in 1..Len(plugin.processings) : HasStarted(plugin.processings[id])}

\* C13: the blocks of one document that are evaluated with no reset of the
\* document between them are evaluated on one and the same global context
\* (so that the global bindings of an earlier block are those a later block
\* reads), and blocks of different documents never on the same one.
C13_OneGlobalScopePerDocument ==
    \A p \in StartedProcessings, q \in StartedProcessings :
        LET a == plugin.processings[p]
            b == plugin.processings[q]
        IN  /\ (a.sourcePath = b.sourcePath /\ a.epoch = b.epoch)
                => a.global = b.global
            /\ a.sourcePath # b.sourcePath => a.global # b.global

(***************************************************************************)
(* Function declarations (the programs of Spec).                           *)
(***************************************************************************)
\* the context whose function table the declaration e is to change
DeclarationTarget(e) ==
    IF e.isGlobal /\ IsSome(e.before[e.ctx].globalContext)
    THEN The(e.before[e.ctx].globalContext)
    ELSE e.ctx

\* C14: a function declaration changes exactly one function table, the
\* global context's when it is flagged global and a global context is
\* attached, the executing context's otherwise; there the name is bound to
\* the new definition, whatever it was bound to before; every other table
\* and every variable binding stay as they were.
C14_DeclarationChangesOneFunctionTable ==
    \A i \in 1..Len(log) :
        log[i].op = "setFunction" =>
            LET e == log[i]
                target == DeclarationTarget(e)
            IN  /\ DOMAIN e.after = DOMAIN e.before
                /\ \A c \in DOMAIN e.before :
                      /\ e.after[c].variables = e.before[c].variables
                      /\ e.after[c].parent = e.before[c].parent
                      /\ e.after[c].globalContext = e.before[c].globalContext
                      /\ c # target => e.after[c].functions = e.before[c].functions
                /\ DOMAIN e.after[target].functions
                      = DOMAIN e.before[target].functions \cup {e.name}
                /\ e.after[target].functions[e.name] = e.func
                /\ \A other \in DOMAIN e.before[target].functions :
                      other # e.name =>
                          e.after[target].functions[other]
                              = e.before[target].functions[other]

\* an unflagged declaration of a name the attached global context defines,
\* with another body
C14_Witness ==
    \E i \in 1..Len(log) :
        /\ log[i].op = "setFunction"
        /\ ~log[i].isGlobal
        /\ IsSome(log[i].before[log[i].ctx].globalContext)
        /\ MapHas(log[i].before[GlobalCtx].functions, log[i].name)
        /\ log[i].before[GlobalCtx].functions[log[i].name] # log[i].func
        /\ MapHas(scopes[BlockCtx].functions, log[i].name)

(***************************************************************************)
(* class Lexer.  L = [source, pos, line, column] is the lexer object; its  *)
(* methods return L after the call, or a completion [st, ctl, val] whose   *)
(* st is L when they can throw.  The source is a sequence of characters;   *)
(* pos counts from 0 as in the program.                                    *)
(***************************************************************************)
\* class LexerError
LexerError(message, line, column) ==
    [name |-> "LexerError", message |-> message, line |-> line, column |-> column]

\* interface Token without templateParts
Token(type, value, line, column) ==
    [type |-> type, value |-> value, line |-> line, column |-> column]

\* the character "\0" that peek returns at the end of the source
NUL == "NUL"

Quote == "\""

Backslash == "\\"

isAtEnd(L) == L.pos >= Len(L.source)

peek(L) == IF isAtEnd(L) THEN NUL ELSE L.source[L.pos + 1]

peekNext(L) == IF L.pos + 1 >= Len(L.source) THEN NUL ELSE L.source[L.pos + 2]

peekAhead(L, n) == IF L.pos + n >= Len(L.source) THEN NUL ELSE L.source[L.pos + n + 1]

advance(L) ==
    IF ~isAtEnd(L) /\ L.source[L.pos + 1] = "\n"
    THEN [L EXCEPT !.pos = @ + 1, !.line = @ + 1, !.column = 1]
    ELSE [L EXCEPT !.pos = @ + 1, !.column = @ + 1]

Letters ==
    {"a", "b", "c", "d", "e", "f", "g", "h", "i", "j", "k", "l", "m", "n", "o", "p",
     "q", "r", "s", "t", "u", "v", "w", "x", "y", "z",
     "A", "B", "C", "D", "E", "F", "G", "H", "I", "J", "K", "L", "M", "N", "O", "P",
     "Q", "R", "S", "T", "U", "V", "W", "X", "Y", "Z"}

isAlpha(char) == char \in Letters

isDigit(char) == IsDigit(char)

isAlphaNumeric(char) == isAlpha(char) \/ isDigit(char)

isOperatorAhead(L) ==
    \/ peek(L) = "+" /\ peekNext(L) = "+"
    \/ peek(L) = "-" /\ peekNext(L) = "-"

RECURSIVE skipWhitespace(_)
skipWhitespace(L) ==
    IF ~isAtEnd(L) /\ peek(L) \in {" ", "\t", "\r"}
    THEN skipWhitespace(advance(L))
    ELSE L

RECURSIVE skipLine(_)
\* while (!this.isAtEnd() && this.peek() !== "\n") this.advance()
skipLine(L) == IF ~isAtEnd(L) /\ peek(L) # "\n" THEN skipLine(advance(L)) ELSE L

RECURSIVE skipComments(_)
skipComments(L) ==
    IF ~isAtEnd(L) /\ peek(L) = "/" /\ peekNext(L) = "/"
    THEN skipComments(skipWhitespace(skipLine(advance(advance(L)))))
    ELSE L

getEscapedChar(char) ==
    CASE char = "n" -> "\n"
      [] char = "t" -> "\t"
      [] char = "r" -> "\r"
      [] OTHER -> char

\* a toggle that does not look at the character after the dollar sign
checkMathModeToggleMutant(L, inMathMode, mathModeDouble) ==
    IF peek(L) = "$"
    THEN [consumed |-> 1, newInMathMode |-> ~inMathMode, newMathModeDouble |-> FALSE]
    ELSE [consumed |-> 0, newInMathMode |-> inMathMode,
          newMathModeDouble |-> mathModeDouble]

checkMathModeToggle(L, inMathMode, mathModeDouble) ==
    IF peek(L) = "$" /\ peekNext(L) = "$" /\ inMathMode /\ mathModeDouble
    THEN [consumed |-> 2, newInMathMode |-> FALSE, newMathModeDouble |-> FALSE]
    ELSE IF peek(L) = "$" /\ peekNext(L) = "$" /\ ~inMathMode
    THEN [consumed |-> 2, newInMathMode |-> TRUE, newMathModeDouble |-> TRUE]
    ELSE IF peek(L) = "$" /\ peekNext(L) # "$" /\ inMathMode /\ ~mathModeDouble
    THEN [consumed |-> 1, newInMathMode |-> FALSE, newMathModeDouble |-> FALSE]
    ELSE IF peek(L) = "$" /\ peekNext(L) # "$" /\ ~inMathMode
    THEN [consumed |-> 1, newInMathMode |-> TRUE, newMathModeDouble |-> FALSE]
    ELSE [consumed |-> 0, newInMathMode |-> inMathMode,
          newMathModeDouble |-> mathModeDouble]

RECURSIVE readLiteralChars(_, _)
\* the loop of readLiteralString: [L, value]
readLiteralChars(L, value) ==
    IF ~isAtEnd(L) /\ peek(L) # Backtick
    THEN readLiteralChars(advance(L), Append(value, peek(L)))
    ELSE [L |-> L, value |-> value]

readLiteralString(L, startLine, startColumn) ==
    LET closed(r) ==
            IF isAtEnd(r.L)
            THEN Throw(r.L, LexerError("Unterminated literal string",
                                       startLine, startColumn))
            ELSE Normal(advance(r.L),
                        Token("LITERAL_STRING", r.value, startLine, startColumn))
    IN  closed(readLiteralChars(advance(L), << >>))

RECURSIVE readIdentifierChars(_, _)
readIdentifierChars(L, value) ==
    IF /\ ~isAtEnd(L)
       /\ \/ isAlphaNumeric(peek(L))
          \/ peek(L) = "_"
          \/ peek(L) = "-" /\ ~isOperatorAhead(L)
    THEN readIdentifierChars(advance(L), Append(value, peek(L)))
    ELSE [L |-> L, value |-> value]

readIdentifier(L, startLine, startColumn, isGlobal) ==
    LET named(r) ==
            Normal(r.L, Token(IF isGlobal THEN "GLOBAL" ELSE "IDENTIFIER",
                              r.value, startLine, startColumn))
        after(at) ==
            IF isAtEnd(at) \/ (~isAlpha(peek(at)) /\ peek(at) # "_")
            THEN IF isGlobal
                 THEN Throw(at, LexerError("Expected identifier after ~@",
                                           startLine, startColumn))
                 ELSE Normal(at, Token("AT", <<"@">>, startLine, startColumn))
            ELSE named(readIdentifierChars(at, <<"@">>))
    IN  after(advance(L))

RECURSIVE readNameChars(_, _)
readNameChars(L, value) ==
    IF ~isAtEnd(L) /\ (isAlphaNumeric(peek(L)) \/ peek(L) = "-")
    THEN readNameChars(advance(L), Append(value, peek(L)))
    ELSE [L |-> L, value |-> value]

\* the token type of a name: a keyword or NAME
NameType(value) ==
    CASE value \in {<<"t", "r", "u", "e">>, <<"f", "a", "l", "s", "e">>} -> "BOOLEAN"
      [] value = <<"i", "f">> -> "IF"
      [] value = <<"e", "l", "s", "e">> -> "ELSE"
      [] value = <<"f", "o", "r">> -> "FOR"
      [] value = <<"w", "h", "i", "l", "e">> -> "WHILE"
      [] OTHER -> "NAME"

readName(L, startLine, startColumn) ==
    LET named(r) ==
            Normal(r.L, Token(NameType(r.value), r.value, startLine, startColumn))
    IN  named(readNameChars(L, << >>))

RECURSIVE readDigits(_, _)
readDigits(L, value) ==
    IF ~isAtEnd(L) /\ isDigit(peek(L))
    THEN readDigits(advance(L), Append(value, peek(L)))
    ELSE [L |-> L, value |-> value]

readNumber(L, startLine, startColumn) ==
    LET numbered(r) ==
            Normal(r.L, Token("NUMBER", r.value, startLine, startColumn))
        fraction(r) ==
            IF peek(r.L) = "." /\ isDigit(peekNext(r.L))
            THEN numbered(readDigits(advance(r.L), Append(r.value, ".")))
            ELSE numbered(r)
    IN  fraction(readDigits(L, << >>))

RECURSIVE TrimStart(_)
TrimStart(s) ==
    IF Len(s) > 0 /\ IsSpace(s[1]) THEN TrimStart(Tail(s)) ELSE s

RECURSIVE TrimEnd(_)
TrimEnd(s) ==
    IF Len(s) > 0 /\ IsSpace(s[Len(s)]) THEN TrimEnd(SubSeq(s, 1, Len(s) - 1)) ELSE s

\* String.prototype.trim
Trim(s) == TrimEnd(TrimStart(s))

RECURSIVE readTemplateExpression(_, _, _, _, _, _)
\* while (!this.isAtEnd() && depth > 0) of readString and of
\* readMultilineString, which does not stop at a line end: [exprSource, depth]
readTemplateExpression(L, exprSource, depth, multiline, startLine, startColumn) ==
    IF isAtEnd(L) \/ depth <= 0
    THEN Normal(L, [exprSource |-> exprSource, depth |-> depth])
    ELSE IF peek(L) = "<"
    THEN readTemplateExpression(advance(L), Append(exprSource, "<"), depth + 1,
                                multiline, startLine, startColumn)
    ELSE IF peek(L) = ">"
    THEN readTemplateExpression(
            advance(L),
            IF depth - 1 > 0 THEN Append(exprSource, ">") ELSE exprSource,
            depth - 1, multiline, startLine, startColumn)
    ELSE IF peek(L) = "\n" /\ ~multiline
    THEN Throw(L, LexerError("Unterminated template expression in string",
                             startLine, startColumn))
    ELSE readTemplateExpression(advance(L), Append(exprSource, peek(L)), depth,
                                multiline, startLine, startColumn)

\* if (value.length > 0) parts.push({ type: "text", value })
TextPart(parts, value) ==
    IF Len(value) > 0 THEN Append(parts, [type |-> "text", value |-> value])
    ELSE parts

\* the STRING or TEMPLATE_STRING token of a closed string
StringToken(q, startLine, startColumn) ==
    IF q.hasTemplates
    THEN [type |-> "TEMPLATE_STRING", value |-> << >>, line |-> startLine,
          column |-> startColumn, templateParts |-> TextPart(q.parts, q.value)]
    ELSE Token("STRING", q.value, startLine, startColumn)

RECURSIVE readStringLoop(_, _, _, _, _)
\* The loops of readString and of readMultilineString (multiline).
\* q = [value, parts, hasTemplates, inMathMode, mathModeDouble].
\* L.scan records, for every turn of the loop that handles a character, the
\* character, the one after it, the math mode before and after the turn, and
\* whether the turn processed the character as an escape.
readStringLoop(L, q, multiline, startLine, startColumn) ==
    LET again(at, next) == readStringLoop(at, next, multiline, startLine, startColumn)
        scanned(toggle, isEscape) ==
            [L EXCEPT !.scan =
                Append(@, [char |-> peek(L), next |-> peekNext(L),
                           inMathMode |-> q.inMathMode,
                           mathModeDouble |-> q.mathModeDouble,
                           newInMathMode |-> toggle.newInMathMode,
                           newMathModeDouble |-> toggle.newMathModeDouble,
                           consumed |-> toggle.consumed,
                           escaped |-> isEscape])]
        toggled(toggle) ==
            again(IF toggle.consumed = 2 THEN advance(advance(scanned(toggle, FALSE)))
                  ELSE advance(scanned(toggle, FALSE)),
                  [q EXCEPT !.value = IF toggle.consumed = 2
                                      THEN @ \o <<peek(L), peek(advance(L))>>
                                      ELSE Append(@, peek(L)),
                            !.inMathMode = toggle.newInMathMode,
                            !.mathModeDouble = toggle.newMathModeDouble])
        escaped(at) ==
            IF ~isAtEnd(at)
            THEN again(advance(at),
                       [q EXCEPT !.value = Append(@, getEscapedChar(peek(at)))])
            ELSE again(at, q)
        template(r) ==
            IF Failed(r) THEN r
            ELSE IF r.val.depth # 0
            THEN Throw(r.st, LexerError("Unterminated template expression",
                                        startLine, startColumn))
            ELSE again(r.st,
                       [q EXCEPT !.parts = Append(TextPart(q.parts, q.value),
                                                  [type |-> "expression",
                                                   value |-> Trim(r.val.exprSource)]),
                                 !.value = << >>,
                                 !.hasTemplates = TRUE])
        character(toggle) ==
            IF toggle.consumed > 0 THEN toggled(toggle)
            ELSE IF peek(L) = Backslash /\ ~q.inMathMode
            THEN escaped(advance(scanned(toggle, TRUE)))
            ELSE IF peek(L) = "<" /\ peekNext(L) # " "
            THEN template(readTemplateExpression(advance(scanned(toggle, FALSE)),
                                                 << >>, 1, multiline,
                                                 startLine, startColumn))
            ELSE again(advance(scanned(toggle, FALSE)),
                       [q EXCEPT !.value = Append(@, peek(L))])
    IN  IF isAtEnd(L)
        THEN Throw(L, LexerError(IF multiline THEN "Unterminated multiline string"
                                 ELSE "Unterminated string",
                                 startLine, startColumn))
        ELSE IF ~multiline /\ peek(L) = Quote
        THEN Normal(advance(L), StringToken(q, startLine, startColumn))
        ELSE IF ~multiline /\ peek(L) = "\n"
        THEN Throw(L, LexerError("Unterminated string", startLine, startColumn))
        ELSE IF multiline /\ peek(L) = Quote /\ peekNext(L) = Quote
                /\ peekAhead(L, 2) = Quote
        THEN Normal(advance(advance(advance(L))),
                    StringToken(q, startLine, startColumn))
        ELSE character(checkMathModeToggle(L, q.inMathMode, q.mathModeDouble))

\* let value = ""; const parts = []; let hasTemplates = false; ...
EmptyString ==
    [value |-> << >>, parts |-> << >>, hasTemplates |-> FALSE,
     inMathMode |-> FALSE, mathModeDouble |-> FALSE]

readMultilineString(L, startLine, startColumn) ==
    readStringLoop(L, EmptyString, TRUE, startLine, startColumn)

readString(L, startLine, startColumn) ==
    LET opened(at) ==
            IF peek(at) = Quote /\ peekNext(at) = Quote
            THEN readMultilineString(advance(advance(at)), startLine, startColumn)
            ELSE readStringLoop(at, EmptyString, FALSE, startLine, startColumn)
    IN  opened(advance([L EXCEPT !.scan = << >>]))

\* nextToken(): the token read at the position of L, None for null
nextToken(L) ==
    LET one(at, type, value) ==
            Normal(advance(at), Some(Token(type, <<value>>, at.line, at.column)))
        two(at, second, type2, type1) ==
            IF peek(advance(at)) = second
            THEN Normal(advance(advance(at)),
                        Some(Token(type2, <<peek(at), second>>, at.line, at.column)))
            ELSE Normal(advance(at),
                        Some(Token(type1, <<peek(at)>>, at.line, at.column)))
        pair(at, type, message) ==
            IF peek(advance(at)) = peek(at)
            THEN Normal(advance(advance(at)),
                        Some(Token(type, <<peek(at), peek(at)>>, at.line, at.column)))
            ELSE Throw(advance(at), LexerError(message, at.line, at.column))
        read(r) == IF Failed(r) THEN r ELSE Normal(r.st, Some(r.val))
        token(at, char) ==
            CASE char = "\n" -> one(at, "NEWLINE", "\n")
              [] char = Quote -> read(readString(at, at.line, at.column))
              [] char = Backtick -> read(readLiteralString(at, at.line, at.column))
              [] isDigit(char) -> read(readNumber(at, at.line, at.column))
              [] char = "~" ->
                    IF peekNext(at) = "@"
                    THEN read(readIdentifier(advance(at), at.line, at.column, TRUE))
                    ELSE Throw(at, LexerError(
                            "Unexpected character '~', did you mean '~@' for global variable?",
                            at.line, at.column))
              [] char = "@" -> read(readIdentifier(at, at.line, at.column, FALSE))
              [] char = "+" -> two(at, "+", "PLUS_PLUS", "PLUS")
              [] char = "-" -> two(at, "-", "MINUS_MINUS", "MINUS")
              [] char = "=" ->
                    IF peek(advance(at)) = ">"
                    THEN Normal(advance(advance(at)),
                                Some(Token("ARROW", <<"=", ">">>, at.line, at.column)))
                    ELSE two(at, "=", "EQUALS_EQUALS", "EQUALS")
              [] char = "!" -> two(at, "=", "NOT_EQUALS", "NOT")
              [] char = "<" -> two(at, "=", "LESS_THAN_EQUALS", "LESS_THAN")
              [] char = ">" -> two(at, "=", "GREATER_THAN_EQUALS", "GREATER_THAN")
              [] char = "&" ->
                    pair(at, "AND", "Unexpected character '&', did you mean '&&'?")
              [] char = "|" ->
                    pair(at, "OR", "Unexpected character '|', did you mean '||'?")
              [] char = "*" -> one(at, "STAR", char)
              [] char = "/" -> one(at, "SLASH", char)
              [] char = "%" -> one(at, "PERCENT", char)
              [] char = "(" -> one(at, "LPAREN", char)
              [] char = ")" -> one(at, "RPAREN", char)
              [] char = "[" -> one(at, "LBRACKET", char)
              [] char = "]" -> one(at, "RBRACKET", char)
              [] char = "{" -> one(at, "LBRACE", char)
              [] char = "}" -> one(at, "RBRACE", char)
              [] char = "," -> one(at, "COMMA", char)
              [] OTHER ->
                    IF isAlpha(char) THEN read(readName(at, at.line, at.column))
                    ELSE Throw(at, LexerError("Unexpected character",
                                              at.line, at.column))
        start(at) ==
            IF isAtEnd(at) THEN Normal(at, None) ELSE token(at, peek(at))
    IN  start(skipComments(skipWhitespace(L)))

\* ---------------------------------------------------------------------------
\* Lexer.tokenize(), one loop iteration per step.  lexer holds the fields of
\* the Lexer (source, pos, line, column), the local list tokens, the place of
\* the call (status: "running" in the loop, "done" after the return, "error"
\* after a throw) and the error thrown.
\* ---------------------------------------------------------------------------

\* the longest source, in pieces
MaxPieces == 3

\* the pieces the sources are made of
Pieces ==
    { <<Quote>>, <<Quote, "<", "a">>, <<">">>, <<"\n">>, <<" ">>, <<"/", "/">>,
      <<"@", "x">>, <<"~">>, <<"1">>, <<".">>, <<"+">>, <<"&">>, <<"$">>,
      <<Backslash>>, <<Backtick>>, <<"a">> }

RECURSIVE SourcesOf(_)
\* the sources of exactly n pieces
SourcesOf(n) ==
    IF n = 0 THEN { << >> }
    ELSE { s \o p : s \in SourcesOf(n - 1), p \in Pieces }

Sources == UNION { SourcesOf(n) : n \in 0..MaxPieces }

\* the token that tokenize() pushes after the loop
EndOfFile(L) == Token("EOF", << >>, L.line, L.column)

\* pushes an EOF token where nextToken() returned null
pushedMutant(tokens, token, L) ==
    IF IsSome(token) THEN Append(tokens, The(token)) ELSE Append(tokens, EndOfFile(L))

\* if (token) tokens.push(token)
pushed(tokens, token, L) ==
    IF IsSome(token) THEN Append(tokens, The(token)) ELSE tokens

\* new Lexer(source).tokenize() has entered its loop
InitLexer ==
    /\ scopes = << >>
    /\ heap = << >>
    /\ program = NoProgram
    /\ outcome = [kind |-> "none"]
    /\ log = << >>
    /\ nEval = 0
    /\ plugin = NoPlugin
    /\ \E source \in Sources :
          lexer = [NoLexer EXCEPT !.source = source, !.status = "running"]

\* one iteration of while (!this.isAtEnd())
LexToken ==
    LET iterated(r) ==
            IF Failed(r)
            THEN [r.st EXCEPT !.status = "error", !.error = <<r.val>>]
            ELSE [r.st EXCEPT !.tokens = pushed(@, r.val, r.st)]
    IN  /\ lexer.status = "running"
        /\ ~isAtEnd(lexer)
        /\ lexer' = iterated(nextToken(lexer))
        /\ UNCHANGED <<scopes, heap, program, outcome, log, nEval, plugin>>

\* the loop is left: tokens.push({ type: TokenType.EOF, ... }); return tokens
LexEnd ==
    /\ lexer.status = "running"
    /\ isAtEnd(lexer)
    /\ lexer' = [lexer EXCEPT !.tokens = Append(@, EndOfFile(lexer)),
                              !.status = "done"]
    /\ UNCHANGED <<scopes, heap, program, outcome, log, nEval, plugin>>

NextLexer ==
    \/ LexToken
    \/ LexEnd

SpecLexer == InitLexer /\ [][NextLexer]_vars

\* the positions of the EOF tokens in the list
EndsOfFile(tokens) == { i \in 1..Len(tokens) : tokens[i].type = "EOF" }

\* C15: every call of tokenize() ends, by a return or by a LexerError: an
\* iteration that stays in the loop has moved the position forward, and the
\* position never passes the end of the source, so the loop runs at most
\* Len(source) times.  No EOF token is in the list while the loop runs, and
\* the returned list is not empty and holds exactly one EOF token, its last
\* element.
C15_TokenizeEndsWithOneEOF ==
    /\ [][lexer'.status = "running" => lexer'.pos > lexer.pos]_vars
    /\ [](lexer.status = "running" =>
            lexer.pos <= Len(lexer.source) /\ EndsOfFile(lexer.tokens) = {})
    /\ [](lexer.status = "done" =>
            EndsOfFile(lexer.tokens) = {Len(lexer.tokens)} /\ Len(lexer.tokens) > 0)
    /\ [](lexer.status = "error" =>
            Len(lexer.error) = 1 /\ lexer.error[1].name = "LexerError")

\* a source of three tokens, one of them a template string, was tokenized
C15_Witness ==
    /\ lexer.status = "done"
    /\ Len(lexer.tokens) = 4
    /\ \E i \in 1..3 : lexer.tokens[i].type = "TEMPLATE_STRING"

\* ---------------------------------------------------------------------------
\* The standard library function @range.
\* ---------------------------------------------------------------------------

\* the largest magnitude of an integer argument of @range
MaxRange == 3

\* Number(value): None for NaN
Number(v, h) ==
    LET converted(p) ==
            CASE p.t = "number" -> Some(p)
              [] p.t = "string" -> StringToNumber(p.s)
              [] p.t = "boolean" -> Some(NumOf(IF p.b THEN 1 ELSE 0))
    IN  converted(JsToPrimitive(v, h))

RECURSIVE rangeLoopMutant(_, _, _)
\* a loop that also takes the end: i <= end
rangeLoopMutant(i, end, result) ==
    IF NumLess(end, i) THEN result
    ELSE rangeLoopMutant(NumAdd(i, NumOf(1)), end, Append(result, EvaluatedValue(i, TRUE)))

RECURSIVE rangeLoop(_, _, _)
\* for (let i = start; i < end; i++) result.push({ value: i, isMarkdown: true })
rangeLoop(i, end, result) ==
    IF ~NumLess(i, end) THEN result
    ELSE rangeLoop(NumAdd(i, NumOf(1)), end, Append(result, EvaluatedValue(i, TRUE)))

stdlib_range(args, line, column, st) ==
    LET made(result) ==
            Normal([st EXCEPT !.heap = Append(@, result)],
                   EvaluatedValue(Arr(Len(st.heap) + 1), FALSE))
        ranged(start, end) ==
            IF start = None \/ end = None
            THEN Throw(st, RuntimeError("@range() expects numeric arguments",
                                        line, column))
            ELSE made(rangeLoop(The(start), The(end), << >>))
    IN  IF Len(args) < 1 \/ Len(args) > 2
        THEN Throw(st, RuntimeError("@range() expects 1-2 arguments", line, column))
        ELSE IF Len(args) = 1
        THEN ranged(Some(NumOf(0)), Number(args[1].value, st.heap))
        ELSE ranged(Number(args[1].value, st.heap), Number(args[2].value, st.heap))

\* the argument values of the calls: the integers, a fraction, strings, a boolean
RangeValues ==
    { NumOf(i) : i \in -MaxRange..MaxRange }
        \cup { MkNum(1, 2), Str(<<"2">>), Str(<<"x">>), Bool(TRUE) }

RangeArguments ==
    UNION { [1..n -> { EvaluatedValue(v, FALSE) : v \in RangeValues }] : n \in 0..3 }

\* a call of @range(args) at line 1, column 1
CallRange(args) ==
    LET called(r) ==
            /\ heap' = r.st.heap
            /\ outcome' = [kind |-> "range", args |-> args, ctl |-> r.ctl, val |-> r.val]
    IN  /\ outcome.kind = "none"
        /\ called(stdlib_range(args, 1, 1,
                               [scopes |-> scopes, heap |-> heap, log |-> log,
                                fuel |-> MaxFuel]))
        /\ UNCHANGED <<scopes, program, log, nEval, plugin, lexer>>

NextRange == \E args \in RangeArguments : CallRange(args)

SpecRange == Init /\ [][NextRange]_vars

\* the call made had one or two arguments, all of them integers
IntegerRange ==
    /\ outcome.kind = "range"
    /\ Len(outcome.args) \in {1, 2}
    /\ \A k \in 1..Len(outcome.args) :
          outcome.args[k].value.t = "number" /\ outcome.args[k].value.d = 1

RangeStart == IF Len(outcome.args) = 1 THEN 0 ELSE outcome.args[1].value.n

RangeEnd == outcome.args[Len(outcome.args)].value.n

\* C16: with integer arguments @range(start, end) returns a new array of
\* max(0, end - start) numbers, the k-th of them start + k - 1, and @range(n)
\* returns what @range(0, n) returns; the array is empty when end <= start.
C16_RangeCountsFromStartToEnd ==
    IntegerRange =>
        /\ outcome.ctl = "normal"
        /\ outcome.val = EvaluatedValue(Arr(Len(heap)), FALSE)
        /\ LET result == heap[Len(heap)]
               length == IF RangeEnd > RangeStart THEN RangeEnd - RangeStart ELSE 0
           IN  /\ Len(result) = length
               /\ \A k \in 1..length :
                     result[k] = EvaluatedValue(NumOf(RangeStart + k - 1), TRUE)
               /\ RangeEnd <= RangeStart => result = << >>
        /\ Len(outcome.args) = 1 =>
              LET st == [scopes |-> scopes, heap |-> << >>, log |-> log, fuel |-> MaxFuel]
                  two == stdlib_range(<<EvaluatedValue(NumOf(0), FALSE), outcome.args[1]>>,
                                      1, 1, st)
              IN  two.val = outcome.val /\ two.st.heap = heap

\* @range(-1, 2) returned the array of -1, 0 and 1
C16_Witness ==
    /\ IntegerRange
    /\ Len(outcome.args) = 2
    /\ RangeStart = -1
    /\ RangeEnd = 2
    /\ outcome.ctl = "normal"

\* ---------------------------------------------------------------------------
\* Two runs of evaluate().  The second run starts from contexts that hold
\* equal bindings but are other objects: its arrays are other arrays (each
\* reference moved by one, an array nobody refers to before them), read by
\* Moved.
\* ---------------------------------------------------------------------------

MovedValue(v) ==
    [v EXCEPT !.value = IF @.t = "object" THEN Arr(@.ref + 1) ELSE @]

MovedValues(values) == [k \in DOMAIN values |-> MovedValue(values[k])]

MovedHeap(h) == <<<< >>>> \o [k \in DOMAIN h |-> MovedValues(h[k])]

MovedScopes(sc) ==
    [k \in DOMAIN sc |-> [sc[k] EXCEPT !.variables = MovedValues(@)]]

Moved(st) == [st EXCEPT !.scopes = MovedScopes(@), !.heap = MovedHeap(@)]

\* what the second run is to end with, given what the first run ended with
MovedOutcome(o) ==
    IF o.kind = "returned" THEN [ctl |-> "normal", val |-> MovedValues(o.results)]
    ELSE [ctl |-> "throw",
          val |-> IF o.error.name = "ReturnValue" /\ IsSome(o.error.value)
                  THEN ReturnValue(Some(MovedValue(The(o.error.value))))
                  ELSE o.error]

G == IdentifierNode("@g", 1, 1)

\* blocks that make, change and read an array of the global context
SharedArrayPrograms ==
    {ProgramNode(<<Global("@g", ArrayOf(n))>>) : n \in 1..MaxLen}
    \cup {ProgramNode(<<SetAt(G, 0, v), At(G, 0), G>>) : v \in {7, 8}}
    \cup {ProgramNode(<<Let("@x", G), BinaryOpNode(op, X, G, 1, 1)>>) :
            op \in {"==", "!=", "+"}}
    \cup {ProgramNode(<<Let("@x", ArrayOf(n)), BinaryOpNode(op, X, G, 1, 1),
                       Global("@g", X)>>) : n \in 1..MaxLen, op \in {"==", "<"}}
    \cup {ProgramNode(<<FunctionNode("@f", <<"@p">>, << >>,
                                     <<SetAt(IdentifierNode("@p", 1, 1), 0, 5),
                                       ReturnNode(<<IdentifierNode("@p", 1, 1)>>, 1, 1)>>,
                                     TRUE, 1, 1)>>),
          ProgramNode(<<FunctionCallNode("@f", <<G>>, 1, 1), At(G, 0)>>)}

NextTwice ==
    \/ \E prog \in SharedArrayPrograms \cup AliasPrograms : Evaluate(prog)
    \/ NewBlock

SpecTwice == Init /\ [][NextTwice]_vars

StepOperators == {"++", "--"}

Steps == {UnaryOpNode(op, X, prefix, 1, 1) : op \in StepOperators, prefix \in BOOLEAN}

StepBindings ==
    {<< >>,
     <<Let("@x", Num(1))>>,
     <<Global("@x", Num(5))>>,
     <<Let("@x", Num(1)), Global("@x", Num(5))>>,
     <<Global("@x", Num(5)), Let("@x", Num(1))>>,
     <<Let("@x", Text(<<"7">>))>>}

StepPrograms ==
    \* bindings  @x++  @x
    {ProgramNode(bindings \o <<step, X>>) : bindings \in StepBindings, step \in Steps}
    \* bindings  @f = () { @x++ @x }  @f()  @x
    \cup {ProgramNode(bindings \o <<Fn("@f", <<step, X>>, FALSE), Call("@f"), X>>) :
            bindings \in StepBindings, step \in Steps}

NextStep ==
    \/ \E prog \in StepPrograms : Evaluate(prog)
    \/ NewBlock

SpecStep == Init /\ [][NextStep]_vars

RECURSIVE Holder(_, _, _)
\* the context whose binding getVariable(name) returns, 0 when there is none
Holder(sc, ctx, name) ==
    LET this == sc[ctx]
    IN  IF MapHas(this.variables, name) THEN ctx
        ELSE IF IsSome(this.globalContext)
                /\ MapHas(sc[The(this.globalContext)].variables, name)
        THEN The(this.globalContext)
        ELSE IF IsSome(this.parent) THEN Holder(sc, The(this.parent), name)
        ELSE 0

\* the steps of ++ and -- that were taken on a number
StepsTaken ==
    { i \in 1..Len(log) :
        /\ log[i].op = "unary"
        /\ log[i].before[Holder(log[i].before, log[i].ctx, log[i].name)]
               .variables[log[i].name].value.t = "number" }

\* C18: after x++, ++x, x-- or --x the context S whose binding x resolved to
\* holds the old number plus or minus one, no other context gains or changes
\* a binding of x, and the expression yields the new value when prefix and
\* the old value when postfix.
C18_StepWritesBackToHoldingScope ==
    \A i \in StepsTaken :
        LET e == log[i]
            S == Holder(e.before, e.ctx, e.name)
            old == e.before[S].variables[e.name].value
            new == IF e.operator = "++" THEN NumAdd(old, NumOf(1))
                   ELSE NumSub(old, NumOf(1))
        IN  /\ e.after[S].variables[e.name].value = new
            /\ \A k \in DOMAIN e.after :
                  k # S => MapGet(e.after[k].variables, e.name)
                             = MapGet(e.before[k].variables, e.name)
            /\ e.value.value = IF e.prefix THEN new ELSE old

\* the same with no step taken in a function call on a variable of the
\* caller, and none while the executing and the global context both bind x
C18_StepOnSingleBinding ==
    \A i \in StepsTaken :
        LET e == log[i]
            S == Holder(e.before, e.ctx, e.name)
        IN  (S = e.ctx \/ e.before[e.ctx].globalContext = Some(S))
            /\ ~(MapHas(e.before[e.ctx].variables, e.name)
                 /\ isGlobalVariable(e.before, e.ctx, e.name))
            => /\ e.after[S].variables[e.name].value
                     = (IF e.operator = "++"
                        THEN NumAdd(e.before[S].variables[e.name].value, NumOf(1))
                        ELSE NumSub(e.before[S].variables[e.name].value, NumOf(1)))
               /\ e.value.value
                     = (IF e.prefix THEN e.after[S].variables[e.name].value
                        ELSE e.before[S].variables[e.name].value)
               /\ \A k \in DOMAIN e.after :
                     k # S => MapGet(e.after[k].variables, e.name)
                                = MapGet(e.before[k].variables, e.name)

\* ---------------------------------------------------------------------------
\* The implicit parameter @content: the programs of SpecContent.  @show has
\* no parameter and reads @content, @wrap calls @show from its body, @named
\* declares @content itself; the block or the global context may bind
\* @content before the calls.
\* ---------------------------------------------------------------------------
Content == IdentifierNode("@content", 1, 1)

ContentBindings ==
    {<< >>,
     <<Let("@content", Text(<<"c">>))>>,
     <<Global("@content", Text(<<"c">>))>>}

ContentArguments == {<< >>, <<Text(<<"a">>)>>, <<Text(<<"a">>), Num(2)>>}

ContentFunctions ==
    <<FunctionNode("@show", << >>, << >>, <<Content>>, FALSE, 1, 1),
      FunctionNode("@wrap", << >>, << >>,
                   <<FunctionCallNode("@show", <<Text(<<"b">>)>>, 2, 1)>>, FALSE, 1, 1),
      FunctionNode("@bare", << >>, << >>,
                   <<FunctionCallNode("@show", << >>, 2, 1)>>, FALSE, 1, 1),
      FunctionNode("@named", <<"@content">>, << >>, <<Content>>, FALSE, 1, 1),
      FunctionNode("@other", <<"@p">>, << >>, <<Content>>, FALSE, 1, 1)>>

ContentPrograms ==
    {ProgramNode(bindings \o ContentFunctions \o <<FunctionCallNode(name, args, 3, 1)>>) :
        bindings \in ContentBindings, args \in ContentArguments,
        name \in {"@show", "@wrap", "@bare", "@named", "@other"}}

NextContent ==
    \/ \E prog \in ContentPrograms : Evaluate(prog)
    \/ NewBlock

SpecContent == Init /\ [][NextContent]_vars

\* the bodies entered of functions that declare no parameter @content
ImplicitBodies ==
    { i \in 1..Len(log) :
        /\ log[i].op = "body"
        /\ \A k \in 1..Len(log[i].funcDef.params) :
              log[i].funcDef.params[k] # "@content" }

\* C19: in a call of a function that declares no parameter @content, the
\* body reads @content as the first argument of that call, or as the empty
\* markdown string when the call has no argument, whatever the caller's
\* contexts and the global context bind.
C19_ImplicitContentIsOwnFirstArgument ==
    \A i \in ImplicitBodies :
        getVariable(log[i].scopes, log[i].ctx, "@content")
            = Some(IF Len(log[i].args) > 0 THEN log[i].args[1]
                   ELSE EvaluatedValue(Str(<< >>), TRUE))

\* the same for the calls made from the block while neither the block nor
\* the global context binds @content
C19_ImplicitContentAtTopLevel ==
    \A i \in ImplicitBodies :
        ~hasVariable(log[i].scopes, The(log[i].scopes[log[i].ctx].parent), "@content")
        => getVariable(log[i].scopes, log[i].ctx, "@content")
            = Some(IF Len(log[i].args) > 0 THEN log[i].args[1]
                   ELSE EvaluatedValue(Str(<< >>), TRUE))

\* ---------------------------------------------------------------------------
\* Binding the arguments of a call: the programs of SpecBind.  No argument
\* and no body holds an assignment; the parameter is named @x or @p, and @x
\* may be bound in the block or in the global context before the call, made
\* from the block or from the body of @outer.
\* ---------------------------------------------------------------------------
BindBindings ==
    {<< >>,
     <<Let("@x", Num(1))>>,
     <<Global("@x", Num(1))>>,
     <<Let("@x", Num(1)), Global("@x", Num(2))>>}

BindFunctions ==
    { <<FunctionNode("@f", <<param>>, << >>, <<IdentifierNode(param, 2, 1)>>,
                     FALSE, 1, 1),
        FunctionNode("@outer", <<"@q">>, << >>,
                     <<FunctionCallNode("@f", <<IdentifierNode("@q", 2, 1)>>, 2, 1)>>,
                     FALSE, 1, 1)>> : param \in {"@x", "@p"} }

BindPrograms ==
    {ProgramNode(bindings \o functions \o <<FunctionCallNode(name, args, 3, 1)>> \o tail) :
        bindings \in BindBindings, functions \in BindFunctions,
        name \in {"@f", "@outer"}, args \in {<< >>, <<Num(5)>>, <<Num(5), Num(6)>>},
        tail \in {<< >>, <<X>>}}

NextBind ==
    \/ \E prog \in BindPrograms : Evaluate(prog)
    \/ NewBlock

SpecBind == Init /\ [][NextBind]_vars

\* the bodies entered, each after its parameters were bound
BodiesEntered == { i \in 1..Len(log) : log[i].op = "body" }

\* C20: binding the arguments of a call writes to the new call context only:
\* when the body is entered, every context that was there before the call
\* (the global context, the block's, the callers') holds the variable
\* bindings it held before, whatever the parameters are named.
C20_ArgumentsBoundInCallScopeOnly ==
    \A i \in BodiesEntered :
        \A k \in DOMAIN log[i].before :
            log[i].scopes[k].variables = log[i].before[k].variables

\* the same for the calls of functions none of whose parameters is bound in
\* the global context
C20_FreshParameterNames ==
    \A i \in BodiesEntered :
        (\A p \in 1..Len(log[i].funcDef.params) :
            ~isGlobalVariable(log[i].before, log[i].scopes[log[i].ctx].parent[1],
                              log[i].funcDef.params[p]))
        => \A k \in DOMAIN log[i].before :
              log[i].scopes[k].variables = log[i].before[k].variables

\* ---------------------------------------------------------------------------
\* && and ||: the programs of SpecLogical.  The right operand always takes a
\* step that the log shows (a read of @x, @x++, a call of @f that writes the
\* global @y, a division by zero, a read of the unbound @u), so that the log
\* tells whether it was evaluated.
\* ---------------------------------------------------------------------------
LogicalOperators == {"&&", "||"}

LeftOperands ==
    {Num(0), Num(1), Text(<< >>), Text(<<"a">>), True, False, ArrayOf(0), X,
     UnaryOpNode("--", X, TRUE, 1, 1)}

RightOperands ==
    {X, UnaryOpNode("++", X, FALSE, 1, 1), Call("@f"),
     BinaryOpNode("/", Num(1), Num(0), 1, 1), IdentifierNode("@u", 1, 1)}

LogicalExpressions ==
    {BinaryOpNode(op, l, r, 1, 1) : op \in LogicalOperators, l \in LeftOperands,
                                    r \in RightOperands}

LogicalPrograms ==
    \* @x = 1  @f = () { ~@y = 2  @x-- }  l op r  @x
    {ProgramNode(<<Let("@x", Num(1)),
                   Fn("@f", <<Global("@y", Num(2)), UnaryOpNode("--", X, FALSE, 1, 1)>>,
                      FALSE),
                   e, X>>) : e \in LogicalExpressions}
    \* the same with l op (l op r)
    \cup {ProgramNode(<<Let("@x", Num(1)),
                        BinaryOpNode(op, l, e, 1, 1), X>>) :
            op \in LogicalOperators, l \in {Num(0), Num(1)}, e \in LogicalExpressions}

NextLogical ==
    \/ \E prog \in LogicalPrograms : Evaluate(prog)
    \/ NewBlock

SpecLogical == Init /\ [][NextLogical]_vars

\* the evaluations of a && b and a || b that ended, by a value or an error
LogicalSteps == { i \in 1..Len(log) : log[i].op = "logical" }

\* the right operand of the step i took steps of its own
RightEvaluated(i) == \E j \in (log[i].from + 1)..(i - 1) : log[j].ctx >= 1

\* C21: the right operand of a && b is evaluated iff a is truthy, that of
\* a || b iff a is falsy; when it is skipped the contexts and the arrays are
\* as the left operand left them and no error is raised; a result is a
\* boolean.
C21_ShortCircuit ==
    \A i \in LogicalSteps :
        LET e == log[i]
            truthy == toBoolean(e.left.value)
        IN  /\ RightEvaluated(i) <=> (IF e.operator = "&&" THEN truthy ELSE ~truthy)
            /\ ~RightEvaluated(i) =>
                  /\ e.after = e.before
                  /\ e.heapAfter = e.heap
                  /\ e.ctl = "normal"
                  /\ e.val.value = Bool(e.operator = "||")
            /\ e.ctl = "normal" => e.val.value.t = "boolean" /\ ~e.val.isMarkdown

\* 0 && @x++ was evaluated: the result is false and @x is still 1
C21_Witness ==
    /\ outcome.kind = "returned"
    /\ Len(program.statements) = 4
    /\ program.statements[3] =
          BinaryOpNode("&&", Num(0), UnaryOpNode("++", X, FALSE, 1, 1), 1, 1)
    /\ outcome.results[1].value = Bool(FALSE)
    /\ outcome.results[2].value = NumOf(1)
    /\ \E i \in LogicalSteps : ~RightEvaluated(i)

\* ---------------------------------------------------------------------------
\* if / else if / else: the programs of SpecIf.  The k-th condition reads
\* @ck, bound to 0 or to 1 before the statement, and the block of the k-th
\* clause reads @bk, the else block @else, so that the reads in the log tell
\* what was evaluated and in which order.
\* ---------------------------------------------------------------------------

\* the most else-if clauses of an if statement
MaxElseIfs == 2

ConditionNames == <<"@c1", "@c2", "@c3", "@c4">>

BlockNames == <<"@b1", "@b2", "@b3", "@b4">>

\* @name = v for every name of the sequence, v the value of the same place
RECURSIVE Bindings(_, _)
Bindings(names, values) ==
    IF Len(values) = 0 THEN << >>
    ELSE <<Let(names[1], Num(values[1]))>> \o Bindings(Tail(names), Tail(values))

Clause(k) ==
    [condition |-> IdentifierNode(ConditionNames[k], k, 5),
     then |-> <<IdentifierNode(BlockNames[k], k, 9)>>]

\* if (@c1) { @b1 } else if (@c2) { @b2 } ... else { @else }
IfStatement(n, hasElse) ==
    IfNode(Clause(1).condition, Clause(1).then, [k \in 1..n |-> Clause(k + 1)],
           IF hasElse THEN Some(<<IdentifierNode("@else", 9, 9)>>) ELSE None, 1, 1)

IfPrograms ==
    UNION { { ProgramNode(Bindings(ConditionNames, values)
                          \o Bindings(BlockNames, [k \in 1..(n + 1) |-> 10 + k])
                          \o <<Let("@else", Num(20)), IfStatement(n, hasElse)>>) :
                values \in [1..(n + 1) -> {0, 1}], hasElse \in BOOLEAN } :
            n \in 0..MaxElseIfs }

NextIf ==
    \/ \E prog \in IfPrograms : Evaluate(prog)
    \/ NewBlock

SpecIf == Init /\ [][NextIf]_vars

\* the reads of the conditions, in the order they were made
ConditionReads ==
    SelectSeq(log, LAMBDA e : e.op = "getVariable"
                              /\ \E k \in 1..Len(ConditionNames) : e.name = ConditionNames[k])

\* the names read by the blocks that were executed, in order
BlockReads ==
    SelectSeq(log, LAMBDA e : e.op = "getVariable"
                              /\ (e.name = "@else"
                                  \/ \E k \in 1..Len(BlockNames) : e.name = BlockNames[k]))

\* the if statement of the program that was evaluated
IfEvaluated == program.statements[Len(program.statements)]

\* C22: the conditions of an if statement are evaluated in source order, each
\* once, up to the first truthy one; the block of that clause is executed
\* and no other; when every condition was falsy the else block is executed
\* if there is one, and nothing otherwise.
C22_FirstTruthyClauseWins ==
    program # NoProgram =>
        LET reads == ConditionReads
            n == Len(reads)
            truthy(k) == toBoolean(The(reads[k].result).value)
        IN  /\ n >= 1
            /\ \A k \in 1..n : reads[k].name = ConditionNames[k]
            /\ \A k \in 1..(n - 1) : ~truthy(k)
            /\ IF truthy(n)
               THEN Len(BlockReads) = 1 /\ BlockReads[1].name = BlockNames[n]
               ELSE /\ n = Len(IfEvaluated.elseIfs) + 1
                    /\ IF IsSome(IfEvaluated.else)
                       THEN Len(BlockReads) = 1 /\ BlockReads[1].name = "@else"
                       ELSE BlockReads = << >>

\* with @c1 falsy and @c2 truthy the second of three clauses was executed,
\* and @c3 was not read
C22_Witness ==
    /\ program # NoProgram
    /\ Len(IfEvaluated.elseIfs) = 2
    /\ Len(ConditionReads) = 2
    /\ Len(BlockReads) = 1
    /\ BlockReads[1].name = "@b2"
    /\ outcome.kind = "returned"

\* ---------------------------------------------------------------------------
\* Arguments and parameters: the programs of SpecArguments.  @f declares up
\* to MaxParams parameters of different names, among them @x, which the block
\* or the global context may bind, and is called with fewer, as many and
\* more arguments.
\* ---------------------------------------------------------------------------
MaxParams == 2

ParameterNames == {"@x", "@p", "@q"}

\* the parameter lists: no name twice
ParameterLists ==
    UNION { { params \in [1..n -> ParameterNames] :
                \A i, j \in 1..n : i # j => params[i] # params[j] } :
            n \in 0..MaxParams }

ArgumentLists == { [k \in 1..n |-> Num(4 + k)] : n \in 0..(MaxParams + 1) }

ArgumentPrograms ==
    \* bindings  @f = (params) { "in"  params... }  @f(args)
    {ProgramNode(bindings
                 \o <<FunctionNode("@f", params, << >>,
                                   <<Text(<<"i", "n">>)>>
                                   \o [k \in 1..Len(params) |->
                                          IdentifierNode(params[k], 2, k)],
                                   FALSE, 1, 1),
                      FunctionCallNode("@f", args, 3, 1)>>) :
        bindings \in BindBindings, params \in ParameterLists, args \in ArgumentLists}

NextArguments ==
    \/ \E prog \in ArgumentPrograms : Evaluate(prog)
    \/ NewBlock

SpecArguments == Init /\ [][NextArguments]_vars

\* the calls entered
CallsEntered == { i \in 1..Len(log) : log[i].op = "call" }

\* the first step after the step i that is not the binding of a parameter
AfterBinding(i) ==
    CHOOSE j \in (i + 1)..Len(log) :
        /\ log[j].op # "setVariable"
        /\ \A k \in (i + 1)..(j - 1) : log[k].op = "setVariable"

StandardLibrary ==
    {"@len", "@join", "@range", "@upper", "@lower", "@repeat", "@heading", "@link",
     "@img", "@code", "@quote", "@list", "@table", "@callout", "@wiki", "@tag", "@grid",
     "@columns", "@center", "@hero", "@feature", "@figure", "@dl"}

WritingArguments ==
    {<< >>,
     <<UnaryOpNode("++", X, FALSE, 3, 8)>>,
     <<Call("@set")>>,
     <<BinaryOpNode("/", Num(1), Num(0), 3, 8)>>,
     <<Num(3), UnaryOpNode("--", X, TRUE, 3, 11)>>}

RangeDeclarations ==
    {<< >>,
     <<Fn("@range", <<Num(0)>>, FALSE)>>,
     <<Fn("@range", <<Num(0)>>, TRUE)>>,
     <<Fn("@make", <<Fn("@range", <<Num(0)>>, FALSE)>>, FALSE), Call("@make")>>}

UndefinedPrograms ==
    \* @x = 1  @set = () { ~@y = 2 }  declarations  name(args)  @x
    {ProgramNode(<<Let("@x", Num(1)), Fn("@set", <<Global("@y", Num(2))>>, FALSE)>>
                 \o declarations
                 \o <<FunctionCallNode(name, args, 3, 1), X>>) :
        declarations \in RangeDeclarations, name \in {"@range", "@none"},
        args \in WritingArguments}
    \* the same call inside the body of @in
    \cup {ProgramNode(<<Let("@x", Num(1)), Fn("@set", <<Global("@y", Num(2))>>, FALSE)>>
                      \o declarations
                      \o <<Fn("@in", <<FunctionCallNode(name, args, 3, 1)>>, FALSE),
                           Call("@in"), X>>) :
            declarations \in RangeDeclarations, name \in {"@range", "@none"},
            args \in WritingArguments}

NextUndefined ==
    \/ \E prog \in UndefinedPrograms : Evaluate(prog)
    \/ NewBlock

SpecUndefined == Init /\ [][NextUndefined]_vars

\* the lookups of a function that found none
FailedLookups == { i \in 1..Len(log) : log[i].op = "getFunction" /\ log[i].result = None }

\* C24: a call of a name that no visible context defines as a function
\* raises the undefined-function error with no argument evaluated: the
\* lookup is the first step of the call statement, the steps after it are
\* the exits of the calls it was made in, the contexts
\* that remain are as they were at the lookup, and evaluate() raises that
\* error; the standard library's table is not looked at.
C24_UndefinedFunctionBeforeArguments ==
    \A i \in FailedLookups :
        /\ i > 1
        /\ log[i - 1].op = "statement"
        /\ log[i - 1].type = "FunctionCall"
        /\ log[i - 1].ctx = log[i].ctx
        /\ \A j \in (i + 1)..Len(log) : log[j].op = "exit" /\ log[j].ctl = "throw"
        /\ outcome.kind = "threw"
        /\ outcome.error.name = "RuntimeError"
        /\ outcome.error.message = "Undefined function"
        /\ \A k \in DOMAIN scopes : scopes[k] = log[i].scopes[k]
        /\ Len(scopes) <= Len(log[i].scopes)

\* @range(@x++) was called in the body of @in while no context defined
\* @range: @x is 1 as before
C24_Witness ==
    \E i \in FailedLookups :
        /\ log[i].name = "@range"
        /\ log[i].name \in StandardLibrary
        /\ log[i].ctx > BlockCtx
        /\ \E k \in 1..Len(program.statements) :
              /\ program.statements[k].type = "Function"
              /\ program.statements[k].name = "@in"
              /\ program.statements[k].body[1].args
                    = <<UnaryOpNode("++", X, FALSE, 3, 8)>>
        /\ scopes[BlockCtx].variables["@x"].value = NumOf(1)

\* ---------------------------------------------------------------------------
\* class Parser (src/unnamed/part_000), for token lists of the types NEWLINE,
\* ARROW, IDENTIFIER, GLOBAL, BOOLEAN, the operators, parentheses, braces and
\* commas.  P = [tokens, current]; a method returns Normal(P', node) or
\* Throw(P', ParseError).  The value of a token is its text.
\* ---------------------------------------------------------------------------
ParseError(message, line, column) ==
    [name |-> "ParseError", message |-> message, line |-> line, column |-> column]

peekToken(P) == P.tokens[P.current + 1]

isAtEOF(P) == peekToken(P).type = "EOF"

check(P, type) == ~isAtEOF(P) /\ peekToken(P).type = type

\* advance(): the parser after it; the token returned is previous() of it
advanceToken(P) == IF ~isAtEOF(P) THEN [P EXCEPT !.current = @ + 1] ELSE P

previous(P) == P.tokens[P.current]

RECURSIVE skipNewlines(_)
skipNewlines(P) == IF check(P, "NEWLINE") THEN skipNewlines(advanceToken(P)) ELSE P

consume(P, type, message) ==
    IF check(P, type) THEN Normal(advanceToken(P), previous(advanceToken(P)))
    ELSE Throw(P, ParseError(message, peekToken(P).line, peekToken(P).column))

RECURSIVE parseExpression(_)
RECURSIVE parseStatement(_)

RECURSIVE parseArguments(_, _)
\* the do ... while (this.check(TokenType.COMMA)) of parseArgumentList
parseArguments(P, args) ==
    LET again(at, list) ==
            IF check(at, "COMMA") THEN parseArguments(at, list)
            ELSE LET closed == consume(at, "RPAREN", "Expected ')' after argument list")
                 IN  IF Failed(closed) THEN closed ELSE Normal(closed.st, list)
        kept(r) ==
            IF Failed(r) THEN r ELSE again(skipNewlines(r.st), Append(args, r.val))
        argument(at) ==
            IF ~check(at, "RPAREN") THEN kept(parseExpression(at)) ELSE again(at, args)
    IN  argument(IF check(P, "COMMA") THEN skipNewlines(advanceToken(P)) ELSE P)

parseArgumentList(P) ==
    LET opened(r) ==
            IF Failed(r) THEN r
            ELSE IF check(skipNewlines(r.st), "RPAREN")
            THEN Normal(advanceToken(skipNewlines(r.st)), << >>)
            ELSE parseArguments(skipNewlines(r.st), << >>)
    IN  opened(consume(P, "LPAREN", "Expected '(' to start argument list"))

parseFunctionCall(P, name, line, column) ==
    LET called(r) ==
            IF Failed(r) THEN r
            ELSE Normal(r.st, FunctionCallNode(name, r.val, line, column))
    IN  called(parseArgumentList(P))

RECURSIVE parseStatementsUntil(_, _, _)
\* the loops of parse() and, up to a closing brace, of parseStatementBlock()
\* and of parseBlock()
parseStatementsUntil(P, statements, inBraces) ==
    LET kept(r) ==
            IF Failed(r) THEN r
            ELSE parseStatementsUntil(r.st,
                                      IF r.val # None THEN Append(statements, The(r.val))
                                      ELSE statements,
                                      inBraces)
    IN  IF isAtEOF(P) \/ (inBraces /\ check(P, "RBRACE")) THEN Normal(P, statements)
        ELSE IF check(P, "NEWLINE")
        THEN parseStatementsUntil(advanceToken(P), statements, inBraces)
        ELSE kept(parseStatement(P))

parseStatementBlock(P) == parseStatementsUntil(P, << >>, TRUE)

parseBlock(P) ==
    LET token == previous(advanceToken(P))
        closed(body, r) ==
            IF Failed(r) THEN r
            ELSE Normal(r.st, BlockNode(body, << >>, token.line, token.column))
        block(r) ==
            IF Failed(r) THEN r
            ELSE closed(r.val, consume(r.st, "RBRACE", "Expected '}' after block content"))
    IN  block(parseStatementsUntil(skipNewlines(advanceToken(P)), << >>, TRUE))

parsePrimary(P) ==
    LET token == previous(advanceToken(P))
        parenthesized(r) ==
            IF Failed(r) THEN r
            ELSE LET closed == consume(skipNewlines(r.st), "RPAREN",
                                       "Expected ')' after expression")
                 IN  IF Failed(closed) THEN closed ELSE Normal(closed.st, r.val)
    IN  IF check(P, "LPAREN")
        THEN parenthesized(parseExpression(skipNewlines(advanceToken(P))))
        ELSE IF check(P, "BOOLEAN")
        THEN Normal(advanceToken(P),
                    BooleanNode(token.value = "true", token.line, token.column))
        ELSE IF check(P, "GLOBAL") \/ check(P, "IDENTIFIER")
        THEN IF check(advanceToken(P), "LPAREN")
             THEN parseFunctionCall(advanceToken(P), token.value, token.line, token.column)
             ELSE Normal(advanceToken(P),
                         IdentifierNode(token.value, token.line, token.column))
        ELSE IF check(P, "LBRACE") THEN parseBlock(P)
        ELSE Throw(P, ParseError("Unexpected token", peekToken(P).line,
                                 peekToken(P).column))

RECURSIVE parseUnary(_)
parseUnary(P) ==
    LET operator == previous(advanceToken(P))
        operand(r, op) ==
            IF Failed(r) THEN r
            ELSE Normal(r.st, UnaryOpNode(op, r.val, TRUE, operator.line, operator.column))
        stepped(at) ==
            IF ~check(at, "IDENTIFIER") /\ ~check(at, "GLOBAL")
            THEN Throw(at, ParseError("Expected identifier after operator",
                                      peekToken(at).line, peekToken(at).column))
            ELSE Normal(advanceToken(at),
                        UnaryOpNode(operator.value,
                                    IdentifierNode(peekToken(at).value, peekToken(at).line,
                                                   peekToken(at).column),
                                    TRUE, operator.line, operator.column))
        postfix(r) ==
            IF Failed(r) THEN r
            ELSE IF r.val.type = "Identifier"
                    /\ (check(r.st, "PLUS_PLUS") \/ check(r.st, "MINUS_MINUS"))
            THEN Normal(advanceToken(r.st),
                        UnaryOpNode(peekToken(r.st).value, r.val, FALSE,
                                    r.val.line, r.val.column))
            ELSE r
    IN  IF check(P, "PLUS_PLUS") \/ check(P, "MINUS_MINUS")
        THEN stepped(skipNewlines(advanceToken(P)))
        ELSE IF check(P, "NOT")
        THEN operand(parseUnary(skipNewlines(advanceToken(P))), "!")
        ELSE IF check(P, "MINUS")
        THEN operand(parseUnary(skipNewlines(advanceToken(P))), "-")
        ELSE postfix(parsePrimary(P))

RECURSIVE parseMultiplicativeFrom(_, _)
\* parseMultiplicative from an operand on: pending is None at the first
\* operand, and the left operand and the operator token inside the while loop
parseMultiplicativeFrom(P, pending) ==
    LET joined(left, at) ==
            IF check(at, "STAR") \/ check(at, "SLASH") \/ check(at, "PERCENT")
            THEN parseMultiplicativeFrom(skipNewlines(advanceToken(at)),
                                    Some([left |-> left, operator |-> peekToken(at)]))
            ELSE Normal(at, left)
        operand(r) ==
            IF Failed(r) THEN r
            ELSE IF pending = None THEN joined(r.val, r.st)
            ELSE joined(BinaryOpNode(The(pending).operator.value, The(pending).left, r.val,
                                     The(pending).operator.line,
                                     The(pending).operator.column),
                        r.st)
    IN  operand(parseUnary(P))

parseMultiplicative(P) == parseMultiplicativeFrom(P, None)

RECURSIVE parseAdditiveFrom(_, _)
\* parseAdditive from an operand on
parseAdditiveFrom(P, pending) ==
    LET joined(left, at) ==
            IF check(at, "PLUS") \/ check(at, "MINUS")
            THEN parseAdditiveFrom(skipNewlines(advanceToken(at)),
                              Some([left |-> left, operator |-> peekToken(at)]))
            ELSE Normal(at, left)
        operand(r) ==
            IF Failed(r) THEN r
            ELSE IF pending = None THEN joined(r.val, r.st)
            ELSE joined(BinaryOpNode(The(pending).operator.value, The(pending).left, r.val,
                                     The(pending).operator.line,
                                     The(pending).operator.column),
                        r.st)
    IN  operand(parseMultiplicative(P))

parseAdditive(P) == parseAdditiveFrom(P, None)

\* the token types of == != < <= > >=
ComparisonTypes ==
    {"EQUALS_EQUALS", "NOT_EQUALS", "LESS_THAN", "LESS_THAN_EQUALS", "GREATER_THAN",
     "GREATER_THAN_EQUALS"}

RECURSIVE parseComparisonFrom(_, _)
\* parseComparison from an operand on: the while loop takes one more
\* comparison operator and its additive operand at every turn
parseComparisonFrom(P, pending) ==
    LET joined(left, at) ==
            IF \E type \in ComparisonTypes : check(at, type)
            THEN parseComparisonFrom(skipNewlines(advanceToken(at)),
                                Some([left |-> left, operator |-> peekToken(at)]))
            ELSE Normal(at, left)
        operand(r) ==
            IF Failed(r) THEN r
            ELSE IF pending = None THEN joined(r.val, r.st)
            ELSE joined(BinaryOpNode(The(pending).operator.value, The(pending).left, r.val,
                                     The(pending).operator.line,
                                     The(pending).operator.column),
                        r.st)
    IN  operand(parseAdditive(P))

parseComparison(P) == parseComparisonFrom(P, None)

RECURSIVE parseLogicalAndFrom(_, _)
\* parseLogicalAnd from an operand on
parseLogicalAndFrom(P, pending) ==
    LET joined(left, at) ==
            IF check(at, "AND")
            THEN parseLogicalAndFrom(skipNewlines(advanceToken(at)),
                                Some([left |-> left, operator |-> peekToken(at)]))
            ELSE Normal(at, left)
        operand(r) ==
            IF Failed(r) THEN r
            ELSE IF pending = None THEN joined(r.val, r.st)
            ELSE joined(BinaryOpNode("&&", The(pending).left, r.val,
                                     The(pending).operator.line,
                                     The(pending).operator.column),
                        r.st)
    IN  operand(parseComparison(P))

parseLogicalAnd(P) == parseLogicalAndFrom(P, None)

RECURSIVE parseLogicalOrFrom(_, _)
\* parseLogicalOr from an operand on
parseLogicalOrFrom(P, pending) ==
    LET joined(left, at) ==
            IF check(at, "OR")
            THEN parseLogicalOrFrom(skipNewlines(advanceToken(at)),
                               Some([left |-> left, operator |-> peekToken(at)]))
            ELSE Normal(at, left)
        operand(r) ==
            IF Failed(r) THEN r
            ELSE IF pending = None THEN joined(r.val, r.st)
            ELSE joined(BinaryOpNode("||", The(pending).left, r.val,
                                     The(pending).operator.line,
                                     The(pending).operator.column),
                        r.st)
    IN  operand(parseLogicalAnd(P))

parseLogicalOr(P) == parseLogicalOrFrom(P, None)

parseExpression(P) == parseLogicalOr(P)

parseReturnStatement(P) ==
    LET arrowToken == previous(advanceToken(P))
        valued(r) ==
            IF Failed(r) THEN r
            ELSE Normal(r.st, ReturnNode(Some(r.val), arrowToken.line, arrowToken.column))
        after(at) ==
            IF check(at, "NEWLINE") \/ check(at, "RBRACE") \/ isAtEOF(at)
            THEN Normal(at, ReturnNode(None, arrowToken.line, arrowToken.column))
            ELSE valued(parseExpression(at))
    IN  after(skipNewlines(advanceToken(P)))

\* parseStatement() for return statements and expression statements:
\* Some(node), or None for null
parseStatement(P) ==
    LET some(r) == IF Failed(r) THEN r ELSE Normal(r.st, Some(r.val))
        statement(at) ==
            IF isAtEOF(at) THEN Normal(at, None)
            ELSE IF check(at, "ARROW") THEN some(parseReturnStatement(at))
            ELSE some(parseExpression(at))
    IN  statement(skipNewlines(P))

parse(P) ==
    LET made(r) == IF Failed(r) THEN r ELSE Normal(r.st, ProgramNode(r.val))
    IN  made(parseStatementsUntil(P, << >>, FALSE))

\* ---------------------------------------------------------------------------
\* new Parser(tokens).parse(): the token lists of SpecParser.  The k-th token
\* of a list is at line 1, column k, and the list ends with the EOF token.
\* ---------------------------------------------------------------------------

\* the longest list of the return statements, the EOF token not counted
MaxTokens == 4

\* the types and texts of the tokens of the lists
ReturnTokens ==
    {<<"ARROW", "=>">>, <<"NEWLINE", "\n">>, <<"LBRACE", "{">>, <<"RBRACE", "}">>,
     <<"IDENTIFIER", "@a">>, <<"PLUS", "+">>}

ComparisonTokens ==
    {<<"IDENTIFIER", "@a">>, <<"LESS_THAN", "<">>, <<"EQUALS_EQUALS", "==">>,
     <<"PLUS", "+">>, <<"LPAREN", "(">>, <<"RPAREN", ")">>}

\* the lists of n tokens of the given kinds
TokenLists(kinds, n) ==
    { [k \in 1..(n + 1) |->
          IF k = n + 1 THEN [type |-> "EOF", value |-> "", line |-> 1, column |-> k]
          ELSE [type |-> list[k][1], value |-> list[k][2], line |-> 1, column |-> k]] :
        list \in [1..n -> kinds] }

\* the most opening parentheses and braces of a list
MaxNested == 1

Openings(tokens) ==
    Cardinality({k \in 1..Len(tokens) : tokens[k].type \in {"LPAREN", "LBRACE"}})

ParserInputs ==
    { tokens \in UNION { TokenLists(ReturnTokens, n) : n \in 0..MaxTokens }
                 \cup UNION { TokenLists(ComparisonTokens, n) : n \in 0..(MaxTokens + 1) } :
        Openings(tokens) <= MaxNested }

\* a Parser was constructed on a token list
InitParser ==
    /\ scopes = << >>
    /\ heap = << >>
    /\ program = NoProgram
    /\ outcome = [kind |-> "none"]
    /\ log = << >>
    /\ nEval = 0
    /\ plugin = NoPlugin
    /\ \E tokens \in ParserInputs :
          lexer = [NoLexer EXCEPT !.tokens = tokens, !.status = "done"]

\* parse(): the program node, or the ParseError
Parse ==
    LET parsed(r) ==
            /\ program' = IF Failed(r) THEN NoProgram ELSE r.val
            /\ outcome' = IF Failed(r) THEN [kind |-> "threw", error |-> r.val]
                          ELSE [kind |-> "parsed"]
    IN  /\ outcome.kind = "none"
        /\ parsed(parse([tokens |-> lexer.tokens, current |-> 0]))
        /\ UNCHANGED <<scopes, heap, log, nEval, plugin, lexer>>

NextParser == Parse

SpecParser == InitParser /\ [][NextParser]_vars

\* the statements of the program and of the blocks that are statements of it
StatementsParsed ==
    {program.statements[k] : k \in 1..Len(program.statements)}
    \cup UNION { {program.statements[k].body[j] :
                    j \in 1..Len(program.statements[k].body)} :
                 k \in {i \in 1..Len(program.statements) :
                          program.statements[i].type = "Block"} }

ReturnsParsed == { node \in StatementsParsed : node.type = "Return" }

\* the token after the arrow of the Return node
AfterArrow(node) == lexer.tokens[node.column + 1]

\* C25: the Return node of an arrow whose next token is a newline, a closing
\* brace or the end of the input has no value (what follows the newline is
\* not part of it), and the Return node of any other arrow has one.
C25_ArrowBeforeNewlineReturnsNothing ==
    outcome.kind = "parsed" =>
        \A node \in ReturnsParsed :
            node.value = None <=> AfterArrow(node).type \in {"NEWLINE", "RBRACE", "EOF"}

\* the same for the arrows that no newline follows
C25_ArrowOnOneLine ==
    outcome.kind = "parsed" =>
        \A node \in ReturnsParsed :
            AfterArrow(node).type # "NEWLINE"
            => (node.value = None <=> AfterArrow(node).type \in {"RBRACE", "EOF"})

\* ---------------------------------------------------------------------------
\* Chains of comparison operators
\* ---------------------------------------------------------------------------

ComparisonOperators == {"==", "!=", "<", "<=", ">", ">="}

IsComparison(node) == node.type = "BinaryOp" /\ node.operator \in ComparisonOperators

RECURSIVE NestsComparison(_)
\* a comparison with a comparison as an operand, anywhere in the operators of node
NestsComparison(node) ==
    /\ node.type = "BinaryOp"
    /\ \/ IsComparison(node) /\ (IsComparison(node.left) \/ IsComparison(node.right))
       \/ NestsComparison(node.left)
       \/ NestsComparison(node.right)

Parenthesised == \E k \in 1..Len(lexer.tokens) : lexer.tokens[k].type = "LPAREN"

\* C26: comparison operators do not chain: in a program written without
\* parentheses no comparison has a comparison as an operand (a < b < c is not
\* parsed as a nested comparison).
C26_ComparisonsDoNotChain ==
    (outcome.kind = "parsed" /\ ~Parenthesised) =>
        \A k \in 1..Len(program.statements) : ~NestsComparison(program.statements[k])

\* without parentheses the right operand of a comparison is never a comparison
C26_ChainsNestToTheLeft ==
    (outcome.kind = "parsed" /\ ~Parenthesised) =>
        \A k \in 1..Len(program.statements) :
            IsComparison(program.statements[k])
            => ~IsComparison(program.statements[k].right)

\* ---------------------------------------------------------------------------
\* Math mode inside string literals
\* ---------------------------------------------------------------------------

\* the longest string body scanned
MaxMath == 5

MathCharacters == {"$", Backslash, "a", "<", ">"}

MathBodies == UNION { [1..n -> MathCharacters] : n \in 0..MaxMath }

\* one string literal, in double quotes or in triple double quotes
MathSources ==
    { <<Quote>> \o body \o <<Quote>> : body \in MathBodies }
    \cup { <<Quote, Quote, Quote>> \o body \o <<Quote, Quote, Quote>> :
             body \in MathBodies }

InitMath ==
    /\ scopes = << >>
    /\ heap = << >>
    /\ program = NoProgram
    /\ outcome = [kind |-> "none"]
    /\ log = << >>
    /\ nEval = 0
    /\ plugin = NoPlugin
    /\ \E source \in MathSources :
          lexer = [NoLexer EXCEPT !.source = source, !.status = "running"]

NextMath ==
    \/ LexToken
    \/ LexEnd

SpecMath == InitMath /\ [][NextMath]_vars

\* outside math, inline math or block math
MathMode(inMathMode, mathModeDouble) ==
    IF ~inMathMode THEN "outside" ELSE IF mathModeDouble THEN "block" ELSE "inline"

ModeBefore(e) == MathMode(e.inMathMode, e.mathModeDouble)

ModeAfter(e) == MathMode(e.newInMathMode, e.newMathModeDouble)

\* the number of dollar signs of a sequence of characters
Dollars(text) == Cardinality({k \in 1..Len(text) : text[k] = "$"})

RECURSIVE TextOfParts(_)
TextOfParts(parts) ==
    IF parts = << >> THEN << >> ELSE Head(parts).value \o TextOfParts(Tail(parts))

\* the text of a STRING or TEMPLATE_STRING token
TextOf(token) ==
    IF token.type = "TEMPLATE_STRING" THEN TextOfParts(token.templateParts)
    ELSE token.value

\* C27: the scan of one string starts outside math; outside math $$ enters
\* block math and a single $ enters inline math; inline math is left only by
\* a $ that no $ follows, block math only by $$; every other character, a $
\* included, leaves the mode as it is; a backslash is processed as an escape
\* exactly when the scan is outside math; and every $ of the source is in the
\* text of the token.
C27_MathModeOfStringScan ==
    /\ \A i \in 1..Len(lexer.scan) :
          LET e == lexer.scan[i]
          IN  /\ ModeBefore(e) = IF i = 1 THEN "outside" ELSE ModeAfter(lexer.scan[i - 1])
              /\ ModeAfter(e) =
                    IF e.char = "$" /\ ModeBefore(e) = "outside"
                    THEN (IF e.next = "$" THEN "block" ELSE "inline")
                    ELSE IF e.char = "$" /\ ModeBefore(e) = "inline" /\ e.next # "$"
                    THEN "outside"
                    ELSE IF e.char = "$" /\ ModeBefore(e) = "block" /\ e.next = "$"
                    THEN "outside"
                    ELSE ModeBefore(e)
              /\ e.escaped <=> (e.char = Backslash /\ ModeBefore(e) = "outside")
    /\ lexer.status = "done" =>
          /\ Len(lexer.tokens) = 2
          /\ Dollars(TextOf(lexer.tokens[1])) = Dollars(lexer.source)

\* a string that enters block math, holds a backslash that is kept as it is,
\* and leaves block math
C27_Witness ==
    /\ lexer.status = "done"
    /\ \E i, j, k \in 1..Len(lexer.scan) :
          /\ i < j /\ j < k
          /\ ModeBefore(lexer.scan[i]) = "outside" /\ ModeAfter(lexer.scan[i]) = "block"
          /\ lexer.scan[j].char = Backslash /\ ~lexer.scan[j].escaped
          /\ ModeBefore(lexer.scan[k]) = "block" /\ ModeAfter(lexer.scan[k]) = "outside"

\* ---------------------------------------------------------------------------
\* Blocks: the programs of SpecBlock are one block, with or without a style
\* list, of statements that produce a plain value, a value that has styles of
\* its own, a value that has children, or no value.
\* ---------------------------------------------------------------------------

\* the most statements of the block
MaxValues == 3

BlockStatements ==
    { StringNode(<<"a">>, TRUE, 2, 1),
      NumberNode(NumOf(1), 2, 1),
      Let("@x", Num(1)),
      \* [red] { 2 }
      BlockNode(<<NumberNode(NumOf(2), 3, 1)>>, <<"red">>, 2, 1),
      \* { 3 "b" }
      BlockNode(<<NumberNode(NumOf(3), 3, 1), StringNode(<<"b">>, FALSE, 3, 3)>>,
                << >>, 2, 1) }

BlockPrograms ==
    { ProgramNode(<<BlockNode(body, styles, 1, 1)>>) :
        body \in UNION { [1..n -> BlockStatements] : n \in 0..MaxValues },
        styles \in {<< >>, <<"bold">>} }

NextBlock ==
    \/ \E prog \in BlockPrograms : Evaluate(prog)
    \/ NewBlock

SpecBlock == Init /\ [][NextBlock]_vars

BlocksEvaluated == SelectSeq(log, LAMBDA e : e.op = "block")

\* the statements of a block that are not declarations
Producing(body) == SelectSeq(body, LAMBDA stmt : stmt.type # "Variable")

\* C28: a block whose statements produced one value yields that value, with
\* the styles of the block in place of its own when the block has styles; a
\* block whose statements produced two or more values yields a container with
\* the styles of the block and exactly those values, in order, as children; a
\* block whose statements produced no value yields the empty markdown string
\* with the styles of the block.
C28_BlockYieldsItsValues ==
    \A i \in 1..Len(BlocksEvaluated) :
        LET e == BlocksEvaluated[i]
            n == Len(e.values)
            styles == IF e.node.styles # << >> THEN Some(e.node.styles) ELSE None
        IN  /\ n = Len(Producing(e.node.body))
            /\ n = 0 => e.result = [value |-> Str(<< >>), isMarkdown |-> TRUE,
                                    styles |-> styles, children |-> None]
            /\ n = 1 => /\ e.result.value = e.values[1].value
                        /\ e.result.isMarkdown = e.values[1].isMarkdown
                        /\ e.result.children = e.values[1].children
                        /\ e.result.styles = IF e.node.styles # << >> THEN styles
                                             ELSE e.values[1].styles
            /\ n >= 2 => /\ e.result.styles = styles
                         /\ e.result.children = Some(e.values)

\* the result of the program is that of a styled block of one value that had
\* styles of its own
C28_Witness ==
    /\ outcome.kind = "returned"
    /\ \E i \in 1..Len(BlocksEvaluated) :
          LET e == BlocksEvaluated[i]
          IN  /\ outcome.results = <<e.result>>
              /\ Len(e.values) = 1
              /\ e.node.styles = <<"bold">>
              /\ e.values[1].styles = Some(<<"red">>)
              /\ e.result.styles = Some(<<"bold">>)

\* ---------------------------------------------------------------------------
\* Scopes of blocks, branches, loops and calls: the programs of SpecScopes
\* declare @v or @g inside a block, a branch of an if statement or the body
\* of a loop, call @f(7), whose body declares names of its own, and then look
\* names up.  No program writes a global variable, so every binding is made
\* in the context that executes the declaration.
\* ---------------------------------------------------------------------------

ReadOf(name) == IdentifierNode(name, 9, 1)

Declarations == {Let("@v", Num(1)), Fn("@g", <<Num(5)>>, FALSE)}

\* @name++
Increment(name) == UnaryOpNode("++", ReadOf(name), FALSE, 1, 1)

\* @name < 1
BelowOne(name) == BinaryOpNode("<", ReadOf(name), Num(1), 1, 1)

\* the constructs that execute the declaration once
Constructs(declaration) ==
    { \* { declaration }
      BlockNode(<<declaration>>, << >>, 2, 1),
      \* if (true) { declaration }
      IfNode(BooleanNode(TRUE, 2, 5), <<declaration>>, << >>, None, 2, 1),
      \* if (false) { } else { declaration }
      IfNode(BooleanNode(FALSE, 2, 5), << >>, << >>, Some(<<declaration>>), 2, 1),
      \* if (false) { } else if (true) { declaration }
      IfNode(BooleanNode(FALSE, 2, 5), << >>,
             <<[condition |-> BooleanNode(TRUE, 2, 9), then |-> <<declaration>>]>>,
             None, 2, 1),
      \* for (@i = 0; @i < 1; @i++) { declaration }
      ForNode(Let("@i", Num(0)), BelowOne("@i"), Increment("@i"), <<declaration>>, 2, 1),
      \* while (@w < 1) { declaration  @w++ }
      WhileNode(BelowOne("@w"), <<declaration, Increment("@w")>>, 2, 1) }

\* the bodies of @f = (@p) { ... }
CallBodies ==
    { <<Let("@l", Num(2))>>,
      \* if (true) { @l = 2 }  @l
      <<IfNode(BooleanNode(TRUE, 4, 5), <<Let("@l", Num(2))>>, << >>, None, 4, 1),
        ReadOf("@l")>>,
      \* for (@l = 0; @l < 1; @l++) { @h = () { 3 } }  @h()
      <<ForNode(Let("@l", Num(0)), BelowOne("@l"), Increment("@l"),
                <<Fn("@h", <<Num(3)>>, FALSE)>>, 4, 1),
        Call("@h")>>,
      \* @h = () { @l = 2 }  @h()  @p
      <<Fn("@h", <<Let("@l", Num(2))>>, FALSE), Call("@h"), ReadOf("@p")>> }

\* the lookups after the construct and after the call
Lookups ==
    {ReadOf("@v"), Call("@g"), ReadOf("@i"), ReadOf("@p"), ReadOf("@l"), Call("@h"),
     Call("@k")}

ScopingPrograms ==
    \* @w = 0  construct  @f = (@p) { body }  @k = () { @l }  @f(7)  lookup  lookup
    { ProgramNode(<<Let("@w", Num(0)), construct,
                    FunctionNode("@f", <<"@p">>, << >>, body, FALSE, 3, 1),
                    Fn("@k", <<ReadOf("@l")>>, FALSE),
                    FunctionCallNode("@f", <<Num(7)>>, 5, 1),
                    first, second>>) :
        construct \in UNION { Constructs(declaration) : declaration \in Declarations },
        body \in CallBodies, first \in Lookups, second \in Lookups }

NextScopes ==
    \/ \E prog \in ScopingPrograms : Evaluate(prog)
    \/ NewBlock

SpecScopes == Init /\ [][NextScopes]_vars

\* the calls that are open before the k-th event
Depth(k) ==
    Cardinality({j \in 1..(k - 1) : log[j].op = "call"})
    - Cardinality({j \in 1..(k - 1) : log[j].op = "exit"})

\* the bindings of the name made before the k-th event, by writes of the
\* given kind, in contexts that no call has left since
LiveWrites(k, write, name) ==
    {i \in 1..(k - 1) :
        /\ log[i].op = write
        /\ log[i].name = name
        /\ \A j \in (i + 1)..(k - 1) :
              ~(log[j].op = "exit" /\ log[j].ctx = log[i].ctx)}

\* the last of the writes made in the innermost context
Innermost(writes) ==
    CHOOSE i \in writes :
        \A j \in writes : log[j].ctx < log[i].ctx \/ (log[j].ctx = log[i].ctx /\ j <= i)

\* C29: only a call makes a context: every statement, declaration and lookup
\* executes in the context of the innermost open call, or in the context of
\* the evaluation when no call is open, whatever blocks, branches and loop
\* bodies enclose it; a lookup finds the last binding of the name made in
\* the innermost context that binds it and that no call has left (the init
\* variable of a for statement included), and finds nothing when every
\* binding of the name was made in a call that has returned.
C29_OnlyCallsMakeScopes ==
    /\ \A k \in 1..Len(log) :
          log[k].op \in {"statement", "setVariable", "setFunction", "getVariable",
                         "getFunction", "block"}
          => log[k].ctx = BlockCtx + Depth(k)
    /\ nEval = 1 =>
          \A k \in 1..Len(log) :
              /\ log[k].op = "getVariable" =>
                    LET writes == LiveWrites(k, "setVariable", log[k].name)
                    IN  log[k].result = IF writes = {} THEN None
                                        ELSE Some(log[Innermost(writes)].value)
              /\ log[k].op = "getFunction" =>
                    LET writes == LiveWrites(k, "setFunction", log[k].name)
                    IN  log[k].result = IF writes = {} THEN None
                                        ELSE Some(log[Innermost(writes)].func)

\* @i, declared by the init of a for statement, was found after the loop, and
\* then @l, declared in the call that has returned, was not
C29_Witness ==
    /\ nEval = 1
    /\ outcome.kind = "threw"
    /\ \E m \in 1..Len(log) :
          /\ log[m].op = "getVariable" /\ log[m].name = "@l" /\ log[m].ctx = BlockCtx
          /\ log[m].result = None
          /\ \E k \in 1..(m - 1) :
                /\ log[k].op = "getVariable" /\ log[k].name = "@i"
                /\ log[k].ctx = BlockCtx /\ log[k].result # None
                /\ \E j \in 1..(k - 1) :
                      /\ log[j].op = "exit"
                      /\ \E i \in 1..(j - 1) :
                            /\ log[i].op = "setVariable" /\ log[i].name = "@l"
                            /\ log[i].ctx > BlockCtx

\* ---------------------------------------------------------------------------
\* Processings that wait across a re-render
\* ---------------------------------------------------------------------------

\* C30: a processing that was enqueued before a re-render reset of its
\* document and had not started then never evaluates its block on a global
\* context made after that reset: a processing that has started evaluated
\* in the reset epoch in which it was enqueued.
C30_NoEvaluationAcrossReset ==
    \A id \in 1..Len(plugin.processings) :
        HasStarted(plugin.processings[id])
        => plugin.processings[id].epoch = plugin.processings[id].enqueued

\* a processing enqueued after the last reset of its document evaluates on
\* the global context of its own epoch
C30_EnqueuedAfterReset ==
    \A id \in 1..Len(plugin.processings) :
        (/\ HasStarted(plugin.processings[id])
         /\ plugin.processings[id].enqueued
                = Resets(plugin, plugin.processings[id].sourcePath))
        => plugin.processings[id].epoch = plugin.processings[id].enqueued
====
